---- MODULE Spec2Model ----
(***************************************************************************)
(* A model of the app-render orchestrator of                               *)
(* packages/next/src/server/app-render/app-render.tsx.                     *)
(*                                                                         *)
(* One request is followed through renderToHTMLOrFlightImpl.  Every action  *)
(* is the code that runs between two awaits of the async function; the     *)
(* outcome of an external collaborator (the Action Dispatch Bridge, the    *)
(* document-stream renderer, the continuation step, the tree walk) is      *)
(* drawn with \E when the awaited promise settles.                         *)
(***************************************************************************)
EXTENDS Integers, Sequences, FiniteSets, TLC

(***************************************************************************)
(* Values                                                                  *)
(***************************************************************************)

\* JavaScript's undefined and null, for values that are otherwise strings.
Undefined == "<undefined>"
Null == "<null>"

\* JavaScript truthiness of a string-or-undefined-or-null value.
Truthy(v) == v # Undefined /\ v # Null /\ v # ""

\* res.statusCode = 404 (not-found) and 500 (uncaught render failure).
NotFoundStatus == 404
ServerErrorStatus == 500

\* The bound on the number of errors the error handlers capture in a request.
MaxCaptured == 1

\* A loader tree is the tuple [segment, parallelRoutes, modules]; the
\* parallel routes are kept as a sequence of slots, in iteration order.
Page(mod) == <<"__PAGE__", <<>>, mod>>

LoaderTrees ==
    { << "", << [slot |-> "children", tree |-> Page("page")] >>, "layoutA" >>,
      << "", << [slot |-> "children", tree |-> Page("page")],
                [slot |-> "modal", tree |-> Page("modal")] >>, "layoutB" >> }

\* The paths a request is rendered for; '/404' is the not-found page.
PagePaths == {"/404", "/dashboard"}

\* The status code res carries when the orchestrator is entered: the server
\* sets 404 before it renders the not-found page.
EntryStatusCodes == {200, 404}

\* The status code the Action Dispatch Bridge may leave on res (it answers a
\* not-found action with 404).
BridgeStatusCodes == {404}

\* renderOpts.postponed: undefined, or the serialized resume token.
PostponedValues == {Undefined, "{resume}"}

\* renderOpts.basePath, as a sequence of path parts.
BasePaths == {<<>>, <<"/docs">>}

\* The form states the Action Dispatch Bridge may produce.
FormStates == {"fs1", "fs2"}

\* staticGenerationStore.revalidate and .forceStatic as the page leaves them.
RevalidateValues == {Undefined, "0", "60"}
ForceStaticValues == {Undefined, "false", "true"}

(***************************************************************************)
(* Errors a render can throw.  An error is the record of the fields the    *)
(* catch block of bodyResult inspects.                                     *)
(***************************************************************************)
NoCookies == [present |-> FALSE, modified |-> <<>>]

\* A message that includes the static-html-export documentation URL.
StaticExportMessage ==
    "see https://nextjs.org/docs/advanced-features/static-html-export"

Err(code, message, postpone, digest, status, url, cookies) ==
    [code |-> code, message |-> message, postpone |-> postpone,
     digest |-> digest, redirectStatus |-> status, redirectUrl |-> url,
     mutableCookies |-> cookies]

PlainErr(digest, message) == Err("", message, FALSE, digest, 0, <<>>, NoCookies)

NotFoundError == PlainErr("NEXT_NOT_FOUND", "NEXT_NOT_FOUND")
NoSSRError == PlainErr("NEXT_DYNAMIC_NO_SSR_CODE", "no ssr")
GenericErrors == { PlainErr("", "boom1"), PlainErr("", "boom2") }

RedirectErr(status, url, cookies) ==
    Err("", "NEXT_REDIRECT", FALSE, "NEXT_REDIRECT", status, url, cookies)

\* Redirects without mutable cookies, with none modified and with one.
RedirectErrors ==
    { RedirectErr(307, <<"/login">>, NoCookies),
      RedirectErr(308, <<"/login">>, [present |-> TRUE, modified |-> <<>>]),
      RedirectErr(307, <<"/home">>,
                  [present |-> TRUE, modified |-> <<"session=1">>]) }

BailoutErrors ==
    { Err("NEXT_STATIC_GEN_BAILOUT", "dynamic usage", FALSE, "", 0, <<>>, NoCookies),
      Err("NEXT_STATIC_GEN_BAILOUT", "NEXT_NOT_FOUND", FALSE, "NEXT_NOT_FOUND", 0,
          <<>>, NoCookies),
      PlainErr("", StaticExportMessage) }

PostponeErrors == { Err("", "postpone", TRUE, "", 0, <<>>, NoCookies) }

\* What the document-stream renderer may reject with.
RenderErrors ==
    {NotFoundError, NoSSRError, PlainErr("", "boom1")}
    \cup RedirectErrors \cup BailoutErrors \cup PostponeErrors

NoError == PlainErr("<none>", "")

\* The errors the request's error handlers capture.
CapturableErrors == GenericErrors

(***************************************************************************)
(* Segment Addressing (lines 127-229).  A string is the sequence of its    *)
(* characters; a value that can be undefined, null, a string or an array   *)
(* of strings is a record that says which it is.                           *)
(***************************************************************************)
UndefinedValue == [type |-> "undefined", string |-> <<>>, array |-> <<>>]
NullValue == [type |-> "null", string |-> <<>>, array |-> <<>>]
StringValue(s) == [type |-> "string", string |-> s, array |-> <<>>]
ArrayValue(a) == [type |-> "array", string |-> <<>>, array |-> a]

\* !value
Falsy(value) ==
    \/ value.type \in {"undefined", "null"}
    \/ value.type = "string" /\ value.string = <<>>

\* s.startsWith(prefix), s.endsWith(suffix), s.slice(from, -fromEnd)
StartsWith(s, prefix) ==
    Len(s) >= Len(prefix) /\ SubSeq(s, 1, Len(prefix)) = prefix

EndsWith(s, suffix) ==
    Len(s) >= Len(suffix)
    /\ SubSeq(s, Len(s) - Len(suffix) + 1, Len(s)) = suffix

Slice(s, from, fromEnd) == SubSeq(s, from + 1, Len(s) - fromEnd)

\* encodeURIComponent: a reserved character becomes its percent escape.
EncodeChar(c) ==
    CASE c = "/" -> <<"%", "2", "F">>
      [] c = "%" -> <<"%", "2", "5">>
      [] c = " " -> <<"%", "2", "0">>
      [] OTHER -> <<c>>

RECURSIVE encodeURIComponent(_)
encodeURIComponent(s) ==
    IF s = <<>> THEN <<>>
    ELSE EncodeChar(Head(s)) \o encodeURIComponent(Tail(s))

\* decodeURIComponent: a percent sign takes the two characters after it as
\* an escape; a malformed escape is a URIError.
DecodeEscape(hex) ==
    CASE hex = <<"2", "F">> -> "/"
      [] hex = <<"2", "5">> -> "%"
      [] hex = <<"2", "0">> -> " "
      [] OTHER -> "URIError"

RECURSIVE decodeURIComponent(_)
decodeURIComponent(s) ==
    IF s = <<>> THEN <<>>
    ELSE IF Head(s) # "%"
         THEN <<Head(s)>> \o decodeURIComponent(Tail(s))
         ELSE IF Len(s) < 3 THEN <<"URIError">>
              ELSE <<DecodeEscape(SubSeq(s, 2, 3))>>
                       \o decodeURIComponent(SubSeq(s, 4, Len(s)))

\* array.join(separator)
RECURSIVE join(_, _)
join(array, separator) ==
    IF array = <<>> THEN <<>>
    ELSE IF Len(array) = 1 THEN array[1]
         ELSE array[1] \o separator \o join(Tail(array), separator)

\* '__NEXT_EMPTY_PARAM__'
EMPTY_PARAM == 
    <<"_", "_", "N", "E", "X", "T", "_", "E", "M",
       "P", "T", "Y", "_", "P", "A", "R", "A", "M", "_", "_">>

\* '(..)(..)', '(.)', '(..)', '(...)'
INTERCEPTION_ROUTE_MARKERS ==
    << <<"(", ".", ".", ")", "(", ".", ".", ")">>,
       <<"(", ".", ")">>,
       <<"(", ".", ".", ")">>,
       <<"(", ".", ".", ".", ")">> >>

\* The segment without the first interception marker it starts with.
StripInterceptionMarker(s) ==
    LET hits == {i \in DOMAIN INTERCEPTION_ROUTE_MARKERS :
                    StartsWith(s, INTERCEPTION_ROUTE_MARKERS[i])}
    IN  IF hits = {} THEN s
        ELSE LET first == CHOOSE i \in hits : \A j \in hits : i <= j
             IN  SubSeq(s, Len(INTERCEPTION_ROUTE_MARKERS[first]) + 1, Len(s))

NoSegmentParam == [isNull |-> TRUE, type |-> "", param |-> <<>>]

\* getSegmentParam: [[...param]], [...param] or [param], after an
\* interception marker if there is one; null for any other segment.
getSegmentParam(seg) ==
    LET s == StripInterceptionMarker(seg)
    IN  IF StartsWith(s, <<"[", "[", ".", ".", ".">>) /\ EndsWith(s, <<"]", "]">>)
        THEN [isNull |-> FALSE, type |-> "optional-catchall",
              param |-> Slice(s, 5, 2)]
        ELSE IF StartsWith(s, <<"[", ".", ".", ".">>) /\ EndsWith(s, <<"]">>)
        THEN [isNull |-> FALSE, type |-> "catchall", param |-> Slice(s, 4, 1)]
        ELSE IF StartsWith(s, <<"[">>) /\ EndsWith(s, <<"]">>)
        THEN [isNull |-> FALSE, type |-> "dynamic", param |-> Slice(s, 1, 1)]
        ELSE NoSegmentParam

\* dynamicParamTypes and getShortDynamicParamType
dynamicParamTypes(type) ==
    CASE type = "catchall" -> "c"
      [] type = "optional-catchall" -> "oc"
      [] type = "dynamic" -> "d"

getShortDynamicParamType(type) == dynamicParamTypes(type)

\* A tree segment (Segment) is a string or a [param, value, type] triple.
StringSegment(s) ==
    [isArray |-> FALSE, string |-> s, param |-> <<>>, value |-> <<>>,
     type |-> ""]

TupleSegment(param, value, type) ==
    [isArray |-> TRUE, string |-> <<>>, param |-> param, value |-> value,
     type |-> type]

\* What getDynamicParamFromSegment and findDynamicParamFromRouterState
\* return: null or { param, value, treeSegment, type }.
NullParam ==
    [isNull |-> TRUE, param |-> <<>>, value |-> NullValue,
     treeSegment |-> StringSegment(<<>>), type |-> ""]

DynamicParam(param, value, treeSegment, type) ==
    [isNull |-> FALSE, param |-> param, value |-> value,
     treeSegment |-> treeSegment, type |-> type]

\* A FlightRouterState is [segment, parallelRoutes]; parallelRoutes is kept
\* as the sequence of its entries in insertion order.  <<>> is undefined.
NoRouterState == <<>>

RouterState(treeSegment, parallelRoutes) == <<treeSegment, parallelRoutes>>

Slot(name, state) == [slot |-> name, state |-> state]

\* A variant that walks the slots from the last to the first.
ObjectValues_Reversed(parallelRoutes) ==
    [i \in DOMAIN parallelRoutes |->
        parallelRoutes[Len(parallelRoutes) + 1 - i].state]

\* Object.values(parallelRoutes)
ObjectValues(parallelRoutes) ==
    [i \in DOMAIN parallelRoutes |-> parallelRoutes[i].state]

\* canSegmentBeOverridden(existingSegment, segment): the existing segment
\* is a string, the other a triple, and the parameter the string names is
\* the triple's.
canSegmentBeOverridden(existingSegment, treeSegment) ==
    /\ treeSegment.isArray
    /\ ~getSegmentParam(existingSegment).isNull
    /\ getSegmentParam(existingSegment).param = treeSegment.param

\* Lines 127-168.  The requested segment is always a string.
RECURSIVE findDynamicParamFromRouterState(_, _)
RECURSIVE FirstInParallelRoutes(_, _)
findDynamicParamFromRouterState(state, seg) ==
    IF state = NoRouterState THEN NullParam
    ELSE LET treeSegment == state[1]
         IN  IF canSegmentBeOverridden(seg, treeSegment)
             THEN IF ~treeSegment.isArray THEN NullParam
                  ELSE DynamicParam(treeSegment.param,
                                    StringValue(treeSegment.value),
                                    treeSegment, treeSegment.type)
             ELSE FirstInParallelRoutes(ObjectValues(state[2]), seg)

\* The for loop of lines 155-165 over the states that are left.
FirstInParallelRoutes(states, seg) ==
    IF states = <<>> THEN NullParam
    ELSE LET maybeDynamicParam ==
                 findDynamicParamFromRouterState(Head(states), seg)
         IN  IF ~maybeDynamicParam.isNull THEN maybeDynamicParam
             ELSE FirstInParallelRoutes(Tail(states), seg)

\* params[key]
Lookup(ps, key) == IF key \in DOMAIN ps THEN ps[key] ELSE UndefinedValue

\* Lines 188-201: the value looked up, the empty marker taken for
\* undefined, strings percent-encoded.
EncodedParamValue(ps, key) ==
    LET found == Lookup(ps, key)
        value == IF found = StringValue(EMPTY_PARAM)
                 THEN UndefinedValue ELSE found
    IN  IF value.type = "array"
        THEN ArrayValue([i \in DOMAIN value.array |->
                            encodeURIComponent(value.array[i])])
        ELSE IF value.type = "string"
        THEN StringValue(encodeURIComponent(value.string))
        ELSE value

\* What a call returned and whether it went to the provided router state.
Returned(dynamicParamOrNull) ==
    [consulted |-> FALSE, returned |-> dynamicParamOrNull]

Scanned(state, seg) ==
    [consulted |-> TRUE,
     returned |-> findDynamicParamFromRouterState(state, seg)]

\* A variant that scans the router state for every segment without a value.
WithoutValue_AlwaysScans(segmentParam, state, seg) == Scanned(state, seg)

\* Lines 203-216: there is no value.
WithoutValue(segmentParam, state, seg) ==
    IF segmentParam.type = "optional-catchall"
    THEN LET type == dynamicParamTypes(segmentParam.type)
         IN  Returned(DynamicParam(segmentParam.param, NullValue,
                          TupleSegment(segmentParam.param, <<>>, type), type))
    ELSE Scanned(state, seg)

\* Lines 218-227: there is a value.
WithValue(segmentParam, value) ==
    LET type == getShortDynamicParamType(segmentParam.type)
    IN  Returned(DynamicParam(segmentParam.param, value,
            TupleSegment(segmentParam.param,
                         IF value.type = "array"
                         THEN join(value.array, <<"/">>) ELSE value.string,
                         type),
            type))

\* getDynamicParamFromSegment of makeGetDynamicParamFromSegment(params,
\* providedFlightRouterState), lines 179-228.
getDynamicParamFromSegment(ps, state, seg) ==
    LET segmentParam == getSegmentParam(seg)
    IN  IF segmentParam.isNull THEN Returned(NullParam)
        ELSE LET value == EncodedParamValue(ps, segmentParam.param)
             IN  IF Falsy(value)
                 THEN WithoutValue(segmentParam, state, seg)
                 ELSE WithValue(segmentParam, value)

\* No call was made.
NoCall == [called |-> "none", consulted |-> FALSE, returned |-> NullParam]

Call(name, outcome) ==
    [called |-> name, consulted |-> outcome.consulted,
     returned |-> outcome.returned]

\* The inputs Segment Addressing is checked with.
ParamNames == {<<"s">>, <<"t">>}

\* [s], [...s], [[...s]], (.)[s], [t] and the static segment blog.
Segments ==
    { <<"[", "s", "]">>, <<"[", ".", ".", ".", "s", "]">>,
      <<"[", "[", ".", ".", ".", "s", "]", "]">>,
      <<"(", ".", ")", "[", "s", "]">>, <<"[", "t", "]">>,
      <<"b", "l", "o", "g">> }

\* The values of parameter s: strings ('' , 'a', 'a/b', 'a b', '%2F' and
\* the empty marker) and arrays.
ParamValues ==
    { StringValue(<<>>), StringValue(<<"a">>), StringValue(<<"a", "/", "b">>),
      StringValue(<<"a", " ", "b">>), StringValue(<<"%", "2", "F">>),
      StringValue(EMPTY_PARAM),
      ArrayValue(<<>>), ArrayValue(<< <<"a">> >>),
      ArrayValue(<< <<"a">>, <<"b">> >>),
      ArrayValue(<< <<"a", "/", "b">>, <<"c">> >>) }

\* params: s is missing or has one of the values, t is missing or is 'k'.
ParamMappings ==
    { [key \in ParamNames |-> IF key = <<"s">> THEN sValue ELSE tValue] :
        sValue \in ParamValues \cup {UndefinedValue},
        tValue \in {UndefinedValue, StringValue(<<"k">>)} }

Leaf(treeSegment) == RouterState(treeSegment, <<>>)

\* providedFlightRouterState: undefined, or a tree in which s is found
\* under the root, below t and before the modal slot, at the root and
\* again below it, in the second and in the third of three slots, or
\* nowhere.
RouterStates ==
    { NoRouterState,
      RouterState(StringSegment(<<>>),
          << Slot("children", Leaf(TupleSegment(<<"s">>, <<"x">>, "d"))) >>),
      RouterState(StringSegment(<<>>),
          << Slot("children",
                 RouterState(TupleSegment(<<"t">>, <<"y">>, "d"),
                     << Slot("children",
                            Leaf(TupleSegment(<<"s">>, <<"x">>, "d"))) >>)),
             Slot("modal", Leaf(TupleSegment(<<"s">>, <<"z">>, "d"))) >>),
      RouterState(TupleSegment(<<"s">>, <<"p", "/", "q">>, "c"),
          << Slot("children", Leaf(TupleSegment(<<"s">>, <<"r">>, "d"))) >>),
      RouterState(StringSegment(<<"b", "l", "o", "g">>),
          << Slot("a", Leaf(StringSegment(<<"[", "s", "]">>))),
             Slot("b", Leaf(TupleSegment(<<"s">>, <<"m">>, "oc"))),
             Slot("c", Leaf(TupleSegment(<<"s">>, <<"n">>, "d"))) >>),
      RouterState(StringSegment(<<>>),
          << Slot("children", Leaf(TupleSegment(<<"t">>, <<"y">>, "d"))) >>) }

(***************************************************************************)
(* State                                                                   *)
(***************************************************************************)
VARIABLES
    req,                    \* [isFlight]: the RSC header is present
    renderOpts,             \* [postponed, basePath, supportsDynamicHTML, dev]
    staticGenerationStore,  \* [isStaticGeneration, revalidate, forceStatic]
    pagePath,
    loaderTree,             \* ComponentMod.tree
    res,                    \* [statusCode, Location, setCookie]
    entryRes,               \* res as it was when the orchestrator was entered
    pc,                     \* the await the request is suspended at
    log,                    \* the calls made and settled, in order
    formState,
    actionRequestResult,
    extraRenderResultMeta,
    capturedErrors,
    stringifiedFlightPayloadPromise,
    streams,                \* the TransformStream instances, by creation order
    serverComponentsRenderOpts,
    serverErrorComponentsRenderOpts,
    bodyResultCalls,        \* the arguments of every bodyResult invocation
    errorRenders,           \* the error-shell renders started by recovery
    continuations,          \* the options of every continuation step started
    renderErr,              \* what the primary document render threw
    statusAtRender,         \* res.statusCode when bodyResult was invoked
    body,                   \* what bodyResult resolved to
    renderResult,           \* the RenderResult built from the body
    thrown,                 \* what the request rejected with
    result,                 \* what the request resolved to
    params,                 \* the route parameters, by parameter name
    providedFlightRouterState,
    segment,                \* the segment Segment Addressing is asked about
    dynamicParam,           \* the call made with them and what it returned
    replayed,               \* the same segment resolved from a replayed state
    walked,                 \* what the tree walk yields to generateFlight
    flightOptions,          \* the options generateFlight is called with
    flightCall,             \* the generateFlight call made and what it built
    globalThis,             \* [__next_require__, __next_chunk_load__]
    referenceManifestsSingleton,
    inFlight                \* the requests of one process, by request

vars == <<req, renderOpts, staticGenerationStore, pagePath, loaderTree, res,
          entryRes, pc, log, formState, actionRequestResult,
          extraRenderResultMeta, capturedErrors,
          stringifiedFlightPayloadPromise, streams,
          serverComponentsRenderOpts, serverErrorComponentsRenderOpts,
          bodyResultCalls, errorRenders, continuations, renderErr,
          statusAtRender, body, renderResult, thrown, result,
          params, providedFlightRouterState, segment, dynamicParam, replayed,
          walked, flightOptions, flightCall,
          globalThis, referenceManifestsSingleton, inFlight>>

\* Segment Addressing: its inputs and what it returned.
paramVars ==
    <<params, providedFlightRouterState, segment, dynamicParam, replayed>>

\* generateFlight on its own: its inputs and what it built.
flightVars == <<walked, flightOptions, flightCall>>

\* What lives in the process and not in one request.
processVars == <<globalThis, referenceManifestsSingleton>>

\* What the orchestrator leaves as it was after its synchronous prologue.
entryInputVars ==
    <<req, renderOpts, pagePath, loaderTree, entryRes, paramVars, flightVars,
      inFlight>>

\* What the steps of the orchestrator leave as it was.
inputVars == <<entryInputVars, processVars>>

\* The state of the orchestrator.
requestVars ==
    <<req, renderOpts, staticGenerationStore, pagePath, loaderTree, res,
      entryRes, pc, log, formState, actionRequestResult,
      extraRenderResultMeta, capturedErrors,
      stringifiedFlightPayloadPromise, streams,
      serverComponentsRenderOpts, serverErrorComponentsRenderOpts,
      bodyResultCalls, errorRenders, continuations, renderErr,
      statusAtRender, body, renderResult, thrown, result>>

NoHeader == [set |-> FALSE, value |-> <<>>]
Header(v) == [set |-> TRUE, value |-> v]

EmptyMeta ==
    [fetchMetrics |-> FALSE, postponed |-> Undefined, fetchTags |-> Undefined,
     pageData |-> Undefined, waitUntil |-> FALSE, revalidate |-> Undefined,
     staticBailoutInfo |-> FALSE]

NoBody == [from |-> "none", continued |-> FALSE, stream |-> 0, unchunked |-> FALSE]
NoResult == [kind |-> "none", body |-> NoBody, metadata |-> EmptyMeta]
NoOpts == [inlinedDataTransformStream |-> 0, formState |-> Null]
NoAction == [type |-> Undefined, result |-> Undefined, formState |-> Undefined]

\* The request as renderToHTMLOrFlightImpl is entered with it.
RequestInit ==
    /\ req \in [isFlight : BOOLEAN]
    /\ renderOpts \in [postponed : PostponedValues, basePath : BasePaths,
                       supportsDynamicHTML : BOOLEAN, dev : BOOLEAN]
    /\ staticGenerationStore \in [isStaticGeneration : BOOLEAN,
                                  revalidate : {Undefined},
                                  forceStatic : {Undefined}]
    /\ pagePath \in PagePaths
    /\ loaderTree \in LoaderTrees
    /\ res \in [statusCode : EntryStatusCodes, Location : {NoHeader},
                setCookie : {NoHeader}]
    /\ entryRes = res
    /\ pc = "entry"
    /\ log = <<>>
    /\ formState = Null
    /\ actionRequestResult = NoAction
    /\ extraRenderResultMeta = EmptyMeta
    /\ capturedErrors = <<>>
    /\ stringifiedFlightPayloadPromise =
           [state |-> "unset", value |-> Null, run |-> "none"]
    /\ streams = <<>>
    /\ serverComponentsRenderOpts = NoOpts
    /\ serverErrorComponentsRenderOpts = NoOpts
    /\ bodyResultCalls = <<>>
    /\ errorRenders = <<>>
    /\ continuations = <<>>
    /\ renderErr = NoError
    /\ statusAtRender = 0
    /\ body = NoBody
    /\ renderResult = NoResult
    /\ thrown = NoError
    /\ result = NoResult

\* generateFlight has not been called on its own.
NoFlightOptions ==
    [given |-> FALSE, actionResult |-> Undefined, skipFlight |-> FALSE]

NullFlightData == [isNull |-> TRUE, entries |-> <<>>]

NoFlightCall ==
    [called |-> FALSE, walkRan |-> FALSE, flightData |-> NullFlightData,
     payload |-> [withActionResult |-> FALSE, actionResult |-> Undefined,
                  flightData |-> NullFlightData]]

\* Lines 421-427: the bundled require API of the page's module is exposed on
\* globalThis when the module has one.
NoModuleHooks ==
    [__next_require__ |-> Undefined, __next_chunk_load__ |-> Undefined]

ModuleHooks(page) ==
    [__next_require__ |-> "require:" \o page,
     __next_chunk_load__ |-> "loadChunk:" \o page]

ExposeRequire(global, componentMod) ==
    IF componentMod.__next_app__ THEN ModuleHooks(componentMod.page)
    ELSE global

\* Lines 432-462: the manifests of the page, with a server module map that
\* resolves ids for the worker 'app' + renderOpts.page.
NoReferenceManifests ==
    [clientReferenceManifest |-> Undefined, workerName |-> Undefined]

ReferenceManifests(page) ==
    [clientReferenceManifest |-> "manifest:" \o page,
     workerName |-> "app" \o page]

\* renderOpts.ComponentMod of the request: the module built for its page.
ComponentMod == [page |-> pagePath, __next_app__ |-> TRUE]

Init ==
    /\ RequestInit
    /\ params = [key \in ParamNames |-> UndefinedValue]
    /\ providedFlightRouterState = NoRouterState
    /\ segment = <<>>
    /\ dynamicParam = NoCall
    /\ replayed = NoCall
    /\ walked = <<>>
    /\ flightOptions = NoFlightOptions
    /\ flightCall = NoFlightCall
    /\ globalThis = NoModuleHooks
    /\ referenceManifestsSingleton = NoReferenceManifests
    /\ inFlight = <<>>

(***************************************************************************)
(* Request classification (renderToHTMLOrFlightImpl, before the first      *)
(* await)                                                                  *)
(***************************************************************************)
isFlight == req.isFlight

isNotFoundPath == pagePath = "/404"

isStaticGeneration == staticGenerationStore.isStaticGeneration

\* typeof renderOpts.postponed === 'string'
hasPostponed == renderOpts.postponed # Undefined

generateStaticHTML == renderOpts.supportsDynamicHTML # TRUE

\* validateRootLayout is defined in development only.
validateRootLayout == renderOpts.dev

\* A variant with the negation lost.
IsFlightOnly_NegationLost == isFlight /\ isStaticGeneration

\* if (isFlight && !isStaticGeneration) return generateFlight(ctx)
IsFlightOnly == isFlight /\ ~isStaticGeneration

\* isStaticGeneration || hasPostponed ? generateFlight(ctx)... : Promise.resolve(null)
StartsBackgroundFlight == isStaticGeneration \/ hasPostponed

\* A variant that keeps the requested tree's parallel routes.
createNotFoundLoaderTree_KeepsSlots(tree) == << "", tree[2], tree[3] >>

createNotFoundLoaderTree(tree) == << "", <<>>, tree[3] >>

(***************************************************************************)
(* Side-channel transform streams.  A stream records the server-component  *)
(* renderers it was given to (writers), the continuation steps its         *)
(* readable end was given to (readers) and, for a clone, its source.       *)
(***************************************************************************)
NewTransformStream == [writers |-> <<>>, readers |-> <<>>, source |-> 0]

\* cloneTransformStream(source): a new instance fed from the source.
cloneTransformStream(source) ==
    [writers |-> <<>>, readers |-> <<>>, source |-> source]

\* A variant that hands out the readable end together with the writable end.
GiveWriter_AndReader(ss, id, who) ==
    [ss EXCEPT ![id].writers = Append(@, who),
               ![id].readers = Append(@, "continueFizzStream")]

GiveWriter(ss, id, who) ==
    [ss EXCEPT ![id].writers = Append(@, who)]

GiveReader(ss, id, who) ==
    [ss EXCEPT ![id].readers = Append(@, who)]

(***************************************************************************)
(* Entry: lines 395-599 in FLIGHT_ONLY mode; otherwise lines 395-608 and   *)
(* on to the call of handleAction (line 950).                              *)
(***************************************************************************)
EnterFlightOnly ==
    /\ pc = "entry"
    /\ IsFlightOnly
    /\ globalThis' = ExposeRequire(globalThis, ComponentMod)
    /\ referenceManifestsSingleton' = ReferenceManifests(ComponentMod.page)
    /\ extraRenderResultMeta' =
           [extraRenderResultMeta EXCEPT !.fetchMetrics = TRUE]
    /\ pc' = "generateFlight"
    /\ log' = Append(log, "generateFlight")
    /\ UNCHANGED <<entryInputVars, staticGenerationStore, res, formState,
                   actionRequestResult, capturedErrors,
                   stringifiedFlightPayloadPromise, streams,
                   serverComponentsRenderOpts,
                   serverErrorComponentsRenderOpts, bodyResultCalls,
                   errorRenders, continuations, renderErr, statusAtRender,
                   body, renderResult, thrown, result>>

\* A variant that goes to the document render without offering the request
\* to the bridge.
EnterHtmlPath_NoBridge ==
    /\ pc = "entry"
    /\ ~IsFlightOnly
    /\ globalThis' = ExposeRequire(globalThis, ComponentMod)
    /\ referenceManifestsSingleton' = ReferenceManifests(ComponentMod.page)
    /\ extraRenderResultMeta' =
           [extraRenderResultMeta EXCEPT !.fetchMetrics = TRUE]
    /\ stringifiedFlightPayloadPromise' =
           IF StartsBackgroundFlight
           THEN [state |-> "pending", value |-> Null, run |-> "started"]
           ELSE [state |-> "resolved", value |-> Null, run |-> "none"]
    /\ streams' = <<[NewTransformStream EXCEPT
                        !.writers = <<"ServerComponentsRenderer">>]>>
    /\ serverComponentsRenderOpts' =
           [inlinedDataTransformStream |-> 1, formState |-> Null]
    /\ bodyResultCalls' =
           <<[asNotFound |-> isNotFoundPath, tree |-> loaderTree,
              formState |-> Null]>>
    /\ statusAtRender' = res.statusCode
    /\ log' = <<"bodyResult", "renderer.render">>
    /\ pc' = "render"
    /\ UNCHANGED <<entryInputVars, staticGenerationStore, res, formState,
                   actionRequestResult, capturedErrors,
                   serverErrorComponentsRenderOpts,
                   errorRenders, continuations, renderErr,
                   body, renderResult, thrown, result>>

EnterHtmlPath ==
    /\ pc = "entry"
    /\ ~IsFlightOnly
    /\ globalThis' = ExposeRequire(globalThis, ComponentMod)
    /\ referenceManifestsSingleton' = ReferenceManifests(ComponentMod.page)
    /\ extraRenderResultMeta' =
           [extraRenderResultMeta EXCEPT !.fetchMetrics = TRUE]
    /\ stringifiedFlightPayloadPromise' =
           IF StartsBackgroundFlight
           THEN [state |-> "pending", value |-> Null, run |-> "started"]
           ELSE [state |-> "resolved", value |-> Null, run |-> "none"]
    /\ streams' = Append(streams, NewTransformStream)
    /\ serverComponentsRenderOpts' =
           [inlinedDataTransformStream |-> Len(streams) + 1,
            formState |-> Null]
    /\ log' = log \o (IF StartsBackgroundFlight
                      THEN <<"backgroundFlight">> ELSE <<>>)
                  \o <<"handleAction">>
    /\ pc' = "handleAction"
    /\ UNCHANGED <<entryInputVars, staticGenerationStore, res, formState,
                   actionRequestResult, capturedErrors,
                   serverErrorComponentsRenderOpts, bodyResultCalls,
                   errorRenders, continuations, renderErr, statusAtRender,
                   body, renderResult, thrown, result>>

(***************************************************************************)
(* FLIGHT_ONLY: return generateFlight(ctx) (line 598).  The tree walk      *)
(* either yields the flight data, wrapped in a FlightRenderResult, or      *)
(* throws.                                                                 *)
(***************************************************************************)
FlightBody == [from |-> "generateFlight", continued |-> FALSE, stream |-> 0,
               unchunked |-> FALSE]

GenerateFlightReturns ==
    /\ pc = "generateFlight"
    /\ pc' = "returned"
    /\ result' = [kind |-> "flight", body |-> FlightBody, metadata |-> EmptyMeta]
    /\ log' = Append(log, "generateFlight:returned")
    /\ UNCHANGED <<inputVars, staticGenerationStore, res, formState,
                   actionRequestResult, extraRenderResultMeta, capturedErrors,
                   stringifiedFlightPayloadPromise, streams,
                   serverComponentsRenderOpts, serverErrorComponentsRenderOpts,
                   bodyResultCalls, errorRenders, continuations, renderErr,
                   statusAtRender, body, renderResult, thrown>>

GenerateFlightThrows ==
    /\ pc = "generateFlight"
    /\ \E e \in {NotFoundError, PlainErr("", "boom1")} : thrown' = e
    /\ pc' = "thrown"
    /\ log' = Append(log, "generateFlight:threw")
    /\ UNCHANGED <<inputVars, staticGenerationStore, res, formState,
                   actionRequestResult, extraRenderResultMeta, capturedErrors,
                   stringifiedFlightPayloadPromise, streams,
                   serverComponentsRenderOpts, serverErrorComponentsRenderOpts,
                   bodyResultCalls, errorRenders, continuations, renderErr,
                   statusAtRender, body, renderResult, result>>

(***************************************************************************)
(* generateFlight (lines 231-300): what it builds from the entries the     *)
(* tree walk yields.  An entry is a path: the segments from the root       *)
(* segment '' down to the subtree sent, then the subtree's data and head.  *)
(***************************************************************************)
\* A variant that drops every '' of an entry.
RemoveRootSegment_EveryEmpty(path) ==
    SelectSeq(path, LAMBDA element : element # "")

\* path.slice(1) (line 282).
RemoveRootSegment(path) == SubSeq(path, 2, Len(path))

\* !options?.skipFlight (line 242).
WalksTree(options) == ~(options.given /\ options.skipFlight)

\* Lines 240-285 and 293-296: the flight data, and the payload handed to
\* renderToReadableStream.
generateFlight(walkResult, options) ==
    LET flightData ==
            IF WalksTree(options)
            THEN [isNull |-> FALSE,
                  entries |-> [i \in DOMAIN walkResult |->
                                  RemoveRootSegment(walkResult[i])]]
            ELSE NullFlightData
    IN  [called |-> TRUE,
         walkRan |-> WalksTree(options),
         flightData |-> flightData,
         payload |-> [withActionResult |-> options.given,
                      actionResult |-> options.actionResult,
                      flightData |-> flightData]]

\* The entries a walk yields: every one starts at the root segment ''.
FlightPaths ==
    { << "", "layout-tree", "head" >>,
      << "", "children", "dashboard", "page-tree", "head" >>,
      << "", "modal", "(.)photo", "modal-tree", "head" >>,
      << "", "children", "", "group-tree", "head" >> }

WalkResults ==
    {<<>>}
    \cup { <<p>> : p \in FlightPaths }
    \cup { <<p, q>> : p \in FlightPaths, q \in FlightPaths }
    \cup { <<p, q, r>> : p \in FlightPaths, q \in FlightPaths,
                         r \in FlightPaths }

\* The options generateFlight is called with: none (lines 598 and 605), or
\* the action result and skipFlight the Action Dispatch Bridge passes.
FlightOptionValues ==
    {NoFlightOptions}
    \cup [given : {TRUE}, actionResult : {"actionResult"},
          skipFlight : BOOLEAN]

(***************************************************************************)
(* ACTION_DISPATCH: await handleAction(...) settles (line 950), then lines *)
(* 962-989 run up to the await inside bodyResult.                          *)
(***************************************************************************)
\* What handleAction resolves to: undefined, {type: 'not-found'} or
\* {type: 'done', result?, formState?}.
BridgeOutcomes ==
    {NoAction}
    \cup {[type |-> "not-found", result |-> Undefined, formState |-> Undefined]}
    \cup [type : {"done"}, result : {Undefined, "actionResult"},
          formState : {Undefined} \cup FormStates]

\* The RenderResult a 'done' outcome carries, as the bridge built it.
BridgeResult ==
    [kind |-> "action",
     body |-> [from |-> "handleAction", continued |-> FALSE, stream |-> 0,
               unchunked |-> FALSE],
     metadata |-> [EmptyMeta EXCEPT !.fetchTags = "action-tags"]]

\* RenderResult.extendMetadata: the fields the given metadata carries are
\* assigned over the result's own.
extendMetadata(rr, md) ==
    [rr EXCEPT !.metadata =
        [f \in DOMAIN EmptyMeta |->
            IF md[f] # EmptyMeta[f] THEN md[f] ELSE rr.metadata[f]]]

\* The three ways on from the bridge's outcome (lines 963-982).
IsBridgeNotFound(outcome) == outcome.type = "not-found"

\* A variant that looks at the form state first.
IsBridgeDoneWithResult_FormStateFirst(outcome) ==
    outcome.type = "done" /\ Truthy(outcome.result)
    /\ ~Truthy(outcome.formState)

IsBridgeDoneWithResult(outcome) ==
    outcome.type = "done" /\ Truthy(outcome.result)

\* A variant that never takes the bridge's form state.
FormStateAfterAction_Dropped(outcome) == Null

\* formState as lines 962-982 leave it.
FormStateAfterAction(outcome) ==
    IF outcome.type = "done" /\ ~Truthy(outcome.result)
       /\ Truthy(outcome.formState)
    THEN outcome.formState
    ELSE Null

\* The arguments bodyResult is invoked with (lines 967-971 and 985-989).
BodyResultArgs(outcome) ==
    IF IsBridgeNotFound(outcome)
    THEN [asNotFound |-> TRUE,
          tree |-> createNotFoundLoaderTree(loaderTree),
          formState |-> Null]
    ELSE [asNotFound |-> isNotFoundPath,
          tree |-> loaderTree,
          formState |-> FormStateAfterAction(outcome)]

HandleActionReturns ==
    /\ pc = "handleAction"
    /\ \E outcome \in BridgeOutcomes,
          status \in {res.statusCode} \cup BridgeStatusCodes :
          /\ actionRequestResult' = outcome
          /\ res' = [res EXCEPT !.statusCode = status]
          /\ IF IsBridgeDoneWithResult(outcome)
             THEN /\ result' = extendMetadata(BridgeResult, extraRenderResultMeta)
                  /\ pc' = "returned"
                  /\ log' = Append(log, "handleAction:returned")
                  /\ UNCHANGED <<formState, bodyResultCalls, streams,
                                 statusAtRender>>
             ELSE /\ formState' = FormStateAfterAction(outcome)
                  /\ bodyResultCalls' =
                         Append(bodyResultCalls, BodyResultArgs(outcome))
                  /\ streams' =
                         GiveWriter(streams,
                             serverComponentsRenderOpts.inlinedDataTransformStream,
                             "ServerComponentsRenderer")
                  /\ statusAtRender' = status
                  /\ pc' = "render"
                  /\ log' = log \o <<"handleAction:returned", "bodyResult",
                                     "renderer.render">>
                  /\ UNCHANGED result
    /\ UNCHANGED <<inputVars, staticGenerationStore, extraRenderResultMeta,
                   capturedErrors, stringifiedFlightPayloadPromise,
                   serverComponentsRenderOpts, serverErrorComponentsRenderOpts,
                   errorRenders, continuations, renderErr, body, renderResult,
                   thrown>>

HandleActionThrows ==
    /\ pc = "handleAction"
    /\ thrown' = PlainErr("", "boom1")
    /\ pc' = "thrown"
    /\ log' = Append(log, "handleAction:threw")
    /\ UNCHANGED <<inputVars, staticGenerationStore, res, formState,
                   actionRequestResult, extraRenderResultMeta, capturedErrors,
                   stringifiedFlightPayloadPromise, streams,
                   serverComponentsRenderOpts, serverErrorComponentsRenderOpts,
                   bodyResultCalls, errorRenders, continuations, renderErr,
                   statusAtRender, body, renderResult, result>>

(***************************************************************************)
(* DOCUMENT_RENDER: await renderer.render(content, ...) settles (line 730) *)
(***************************************************************************)
\* The arguments of the bodyResult invocation in progress.
CurrentCall == bodyResultCalls[Len(bodyResultCalls)]

PrimaryBody(continued, stream) ==
    [from |-> "primary", continued |-> continued, stream |-> stream,
     unchunked |-> FALSE]

\* The ContinueStreamOptions of the primary attempt (lines 747-763) and the
\* continuation step they are handed to (lines 765-769).
PrimaryContinuation ==
    [attempt |-> "primary",
     step |-> IF Truthy(renderOpts.postponed)
              THEN "continuePostponedFizzStream" ELSE "continueFizzStream",
     inlinedDataStream |-> serverComponentsRenderOpts.inlinedDataTransformStream,
     generateStaticHTML |-> (isStaticGeneration \/ generateStaticHTML),
     serverInsertedHTMLToHead |-> ~Truthy(renderOpts.postponed),
     validateRootLayout |-> IF ~Truthy(renderOpts.postponed)
                            THEN validateRootLayout ELSE FALSE]

\* The postponed state the document-stream renderer may yield.
RenderedPostponedStates == {"postponed"}

\* JSON.stringify of a postponed state.
JSON_stringify(postponed) == "{" \o postponed \o "}"

\* A variant that does not keep the postponed state.
RecordPostponed_Skipped(meta, postponed) == meta

\* Line 740: extraRenderResultMeta.postponed = JSON.stringify(postponed)
RecordPostponed(meta, postponed) ==
    [meta EXCEPT !.postponed = JSON_stringify(postponed)]

\* A variant that answers a postponed render with status 200.
RenderReturnsPostponed_Sets200 ==
    /\ pc = "render"
    /\ \E postponed \in RenderedPostponedStates :
          extraRenderResultMeta' =
              RecordPostponed(extraRenderResultMeta, postponed)
    /\ body' = PrimaryBody(FALSE, 0)
    /\ res' = [res EXCEPT !.statusCode = 200]
    /\ pc' = "bodyResolved"
    /\ log' = Append(log, "renderer.render:postponed")
    /\ UNCHANGED <<inputVars, staticGenerationStore, formState,
                   actionRequestResult, capturedErrors,
                   stringifiedFlightPayloadPromise, streams,
                   serverComponentsRenderOpts, serverErrorComponentsRenderOpts,
                   bodyResultCalls, errorRenders, continuations, renderErr,
                   statusAtRender, renderResult, thrown, result>>

\* The renderer yields { stream, postponed }; a postponed state is recorded
\* and the stream returned as it is (lines 737-745).
RenderReturnsPostponed ==
    /\ pc = "render"
    /\ \E postponed \in RenderedPostponedStates :
          extraRenderResultMeta' =
              RecordPostponed(extraRenderResultMeta, postponed)
    /\ body' = PrimaryBody(FALSE, 0)
    /\ pc' = "bodyResolved"
    /\ log' = Append(log, "renderer.render:postponed")
    /\ UNCHANGED <<inputVars, staticGenerationStore, res, formState,
                   actionRequestResult, capturedErrors,
                   stringifiedFlightPayloadPromise, streams,
                   serverComponentsRenderOpts, serverErrorComponentsRenderOpts,
                   bodyResultCalls, errorRenders, continuations, renderErr,
                   statusAtRender, renderResult, thrown, result>>

\* No postponed state: the stream goes through the continuation step, whose
\* promise bodyResult returns (lines 747-769).
RenderReturnsStream ==
    /\ pc = "render"
    /\ continuations' = Append(continuations, PrimaryContinuation)
    /\ streams' = GiveReader(streams, PrimaryContinuation.inlinedDataStream,
                             PrimaryContinuation.step)
    /\ pc' = "continue"
    /\ log' = log \o <<"renderer.render:returned", PrimaryContinuation.step>>
    /\ UNCHANGED <<inputVars, staticGenerationStore, res, formState,
                   actionRequestResult, extraRenderResultMeta, capturedErrors,
                   stringifiedFlightPayloadPromise,
                   serverComponentsRenderOpts, serverErrorComponentsRenderOpts,
                   bodyResultCalls, errorRenders, renderErr,
                   statusAtRender, body, renderResult, thrown, result>>

\* The continuation's promise is returned from inside the try block without
\* an await, so its rejection is bodyResult's rejection: the catch block
\* does not see it.
ContinueReturns ==
    /\ pc = "continue"
    /\ body' = PrimaryBody(TRUE, PrimaryContinuation.inlinedDataStream)
    /\ pc' = "bodyResolved"
    /\ log' = Append(log, "continue:returned")
    /\ UNCHANGED <<inputVars, staticGenerationStore, res, formState,
                   actionRequestResult, extraRenderResultMeta, capturedErrors,
                   stringifiedFlightPayloadPromise, streams,
                   serverComponentsRenderOpts, serverErrorComponentsRenderOpts,
                   bodyResultCalls, errorRenders, continuations, renderErr,
                   statusAtRender, renderResult, thrown, result>>

ContinueThrows ==
    /\ pc = "continue"
    /\ thrown' = PlainErr("", "boom1")
    /\ pc' = "thrown"
    /\ log' = Append(log, "continue:threw")
    /\ UNCHANGED <<inputVars, staticGenerationStore, res, formState,
                   actionRequestResult, extraRenderResultMeta, capturedErrors,
                   stringifiedFlightPayloadPromise, streams,
                   serverComponentsRenderOpts, serverErrorComponentsRenderOpts,
                   bodyResultCalls, errorRenders, continuations, renderErr,
                   statusAtRender, body, renderResult, result>>

(***************************************************************************)
(* The catch block of bodyResult (lines 770-922), up to the await of the   *)
(* error-shell render.                                                     *)
(***************************************************************************)
\* The classifiers the catch block calls.
isNotFoundError(err) == err.digest = "NEXT_NOT_FOUND"

isRedirectError(err) == err.digest = "NEXT_REDIRECT"

getRedirectStatusCodeFromError(err) == err.redirectStatus

getURLFromRedirectError(err) == err.redirectUrl

\* addPathPrefix(path, prefix): the path with the prefix in front.
addPathPrefix(path, prefix) == prefix \o path

\* appendMutableCookies(headers, cookies): true when a cookie was modified,
\* and then the headers hold the modified cookies.
appendMutableCookies(cookies) == cookies.modified # <<>>

\* A variant that tests the code only.
IsStaticGenBailout_CodeOnly(err) == err.code = "NEXT_STATIC_GEN_BAILOUT"

\* err.code === 'NEXT_STATIC_GEN_BAILOUT' || err.message?.includes(<url>)
IsStaticGenBailout(err) ==
    \/ err.code = "NEXT_STATIC_GEN_BAILOUT"
    \/ err.message = StaticExportMessage

\* err.$$typeof === Symbol.for('react.postpone')
IsPostponeError(err) == err.postpone

\* A variant that looks for the digest of the dynamic-server-usage signal.
IsNoSSRError_OtherDigest(err) == err.digest = "DYNAMIC_SERVER_USAGE"

IsNoSSRError(err) == err.digest = "NEXT_DYNAMIC_NO_SSR_CODE"

\* A variant that leaves the base path out.
RedirectLocation_NoBasePath(err) == getURLFromRedirectError(err)

\* Lines 800-818: the redirect's status, cookies and Location.
RedirectLocation(err) ==
    addPathPrefix(getURLFromRedirectError(err), renderOpts.basePath)

ResAfterRedirect(r, err) ==
    [r EXCEPT !.statusCode = getRedirectStatusCodeFromError(err),
              !.setCookie =
                  IF err.mutableCookies.present
                     /\ appendMutableCookies(err.mutableCookies)
                  THEN Header(err.mutableCookies.modified) ELSE @,
              !.Location = Header(RedirectLocation(err))]

\* A variant that does not set 404 for a not-found signal.
ResAfterError_No404(r, err) ==
    LET hasRedirectError == isRedirectError(err)
        r2 == IF hasRedirectError THEN ResAfterRedirect(r, err) ELSE r
        is404 == r2.statusCode = NotFoundStatus
    IN  IF ~is404 /\ ~hasRedirectError
        THEN [r2 EXCEPT !.statusCode = ServerErrorStatus]
        ELSE r2

\* Lines 797-823: res after the error has been classified.
ResAfterError(r, err) ==
    LET r1 == IF isNotFoundError(err)
              THEN [r EXCEPT !.statusCode = NotFoundStatus] ELSE r
        hasRedirectError == isRedirectError(err)
        r2 == IF hasRedirectError THEN ResAfterRedirect(r1, err) ELSE r1
        is404 == r2.statusCode = NotFoundStatus
    IN  IF ~is404 /\ ~hasRedirectError
        THEN [r2 EXCEPT !.statusCode = ServerErrorStatus]
        ELSE r2

\* Lines 836-840.
ErrorType(r, err) ==
    IF r.statusCode = NotFoundStatus THEN "not-found"
    ELSE IF isRedirectError(err) THEN "redirect"
    ELSE Undefined

\* A variant that shares the stream of the primary attempt.
ErrorComponentsRenderOpts_SharedStream(newStream) ==
    [serverComponentsRenderOpts EXCEPT !.formState = CurrentCall.formState]

\* Lines 827-834: the options of the error render, with the stream instance
\* cloneTransformStream returned (newStream) and bodyResult's formState.
ErrorComponentsRenderOpts(newStream) ==
    [serverComponentsRenderOpts EXCEPT
        !.inlinedDataTransformStream = newStream,
        !.formState = CurrentCall.formState]

\* The error is a static-generation bail-out or an escaped postpone: it is
\* thrown again (lines 771-788).
RenderThrowsFatal ==
    /\ pc = "render"
    /\ \E err \in RenderErrors :
          /\ IsStaticGenBailout(err) \/ IsPostponeError(err)
          /\ renderErr' = err
          /\ thrown' = err
          /\ staticGenerationStore' =
                 IF IsStaticGenBailout(err) THEN staticGenerationStore
                 ELSE [staticGenerationStore EXCEPT !.revalidate = "0"]
    /\ pc' = "thrown"
    /\ log' = Append(log, "renderer.render:threw")
    /\ UNCHANGED <<inputVars, res, formState, actionRequestResult,
                   extraRenderResultMeta, capturedErrors,
                   stringifiedFlightPayloadPromise, streams,
                   serverComponentsRenderOpts, serverErrorComponentsRenderOpts,
                   bodyResultCalls, errorRenders, continuations,
                   statusAtRender, body, renderResult, result>>

\* ERROR_RECOVERY is entered (lines 790-922).
RenderThrowsRecoverable ==
    /\ pc = "render"
    /\ \E err \in RenderErrors :
          LET newStream == Len(streams) + 1
              opts == ErrorComponentsRenderOpts(newStream)
              res1 == ResAfterError(res, err)
          IN  /\ ~IsStaticGenBailout(err) /\ ~IsPostponeError(err)
              /\ renderErr' = err
              /\ res' = res1
              /\ serverErrorComponentsRenderOpts' = opts
              /\ streams' =
                     GiveWriter(
                         Append(streams,
                             cloneTransformStream(
                                 serverComponentsRenderOpts.inlinedDataTransformStream)),
                         opts.inlinedDataTransformStream, "ErrorPage")
              /\ errorRenders' =
                     Append(errorRenders,
                         [tree |-> CurrentCall.tree,
                          errorType |-> ErrorType(res1, err),
                          formState |-> CurrentCall.formState,
                          stream |-> opts.inlinedDataTransformStream,
                          finalErr |-> NoError])
              /\ log' = log \o <<"renderer.render:threw">>
                            \o (IF IsNoSSRError(err) THEN <<"warn">> ELSE <<>>)
                            \o <<"cloneTransformStream",
                                 "renderToInitialFizzStream">>
    /\ pc' = "errorRender"
    /\ UNCHANGED <<inputVars, staticGenerationStore, formState,
                   actionRequestResult, extraRenderResultMeta, capturedErrors,
                   stringifiedFlightPayloadPromise,
                   serverComponentsRenderOpts, bodyResultCalls, continuations,
                   statusAtRender, body, renderResult, thrown, result>>

\* The ContinueStreamOptions of the error-shell render (lines 924-933).
ErrorContinuation ==
    [attempt |-> "recovery",
     step |-> "continueFizzStream",
     inlinedDataStream |->
         serverErrorComponentsRenderOpts.inlinedDataTransformStream,
     generateStaticHTML |-> isStaticGeneration,
     serverInsertedHTMLToHead |-> TRUE,
     validateRootLayout |-> validateRootLayout]

\* await renderToInitialFizzStream(...) resolves; continueFizzStream is
\* called and awaited (lines 913-933).
ErrorRenderReturns ==
    /\ pc = "errorRender"
    /\ continuations' = Append(continuations, ErrorContinuation)
    /\ streams' = GiveReader(streams, ErrorContinuation.inlinedDataStream,
                             ErrorContinuation.step)
    /\ pc' = "errorContinue"
    /\ log' = log \o <<"renderToInitialFizzStream:returned",
                       "continueFizzStream">>
    /\ UNCHANGED <<inputVars, staticGenerationStore, res, formState,
                   actionRequestResult, extraRenderResultMeta, capturedErrors,
                   stringifiedFlightPayloadPromise,
                   serverComponentsRenderOpts, serverErrorComponentsRenderOpts,
                   bodyResultCalls, errorRenders, renderErr,
                   statusAtRender, body, renderResult, thrown, result>>

ErrorContinueReturns ==
    /\ pc = "errorContinue"
    /\ body' = [from |-> "errorShell", continued |-> TRUE,
                stream |-> ErrorContinuation.inlinedDataStream,
                unchunked |-> FALSE]
    /\ pc' = "bodyResolved"
    /\ log' = Append(log, "continueFizzStream:returned")
    /\ UNCHANGED <<inputVars, staticGenerationStore, res, formState,
                   actionRequestResult, extraRenderResultMeta, capturedErrors,
                   stringifiedFlightPayloadPromise, streams,
                   serverComponentsRenderOpts, serverErrorComponentsRenderOpts,
                   bodyResultCalls, errorRenders, continuations, renderErr,
                   statusAtRender, renderResult, thrown, result>>

\* What bailOnNotFound() of dev-root-not-found-boundary throws.
BailOnNotFoundError ==
    PlainErr("", "notFound() is not allowed to use in root layout")

\* What the error-shell render or its continuation may reject with.
FinalErrors == {NotFoundError, PlainErr("", "boom2")}

\* A variant that wraps the failure of the error-shell render.
RecoveryFailure_Wrapped(finalErr) == PlainErr("", "wrapped")

\* Lines 934-944: what the catch of the error-shell render throws.  In
\* development a not-found finalErr first goes to bailOnNotFound(), which
\* throws its own error.
RecoveryFailure(finalErr) ==
    IF renderOpts.dev /\ isNotFoundError(finalErr)
    THEN BailOnNotFoundError
    ELSE finalErr

\* The error-shell render or its continuation fails (lines 934-944).
ErrorRenderThrows ==
    /\ pc \in {"errorRender", "errorContinue"}
    /\ \E finalErr \in FinalErrors :
          /\ thrown' = RecoveryFailure(finalErr)
          /\ errorRenders' =
                 [errorRenders EXCEPT ![Len(errorRenders)].finalErr = finalErr]
          /\ log' = log \o <<"recovery:threw">>
                        \o (IF renderOpts.dev /\ isNotFoundError(finalErr)
                            THEN <<"bailOnNotFound">> ELSE <<>>)
    /\ pc' = "thrown"
    /\ UNCHANGED <<inputVars, staticGenerationStore, res, formState,
                   actionRequestResult, extraRenderResultMeta, capturedErrors,
                   stringifiedFlightPayloadPromise, streams,
                   serverComponentsRenderOpts, serverErrorComponentsRenderOpts,
                   bodyResultCalls, continuations, renderErr,
                   statusAtRender, body, renderResult, result>>

(***************************************************************************)
(* After await bodyResult(...): the not-found branch returns (lines        *)
(* 966-973); the main branch goes on to await the tree-payload string      *)
(* (line 992).                                                             *)
(***************************************************************************)
BodyResultResolves ==
    /\ pc = "bodyResolved"
    /\ IF IsBridgeNotFound(actionRequestResult)
       THEN /\ result' = [kind |-> "html", body |-> body,
                          metadata |-> extraRenderResultMeta]
            /\ pc' = "returned"
            /\ log' = Append(log, "return")
       ELSE /\ pc' = "awaitPageData"
            /\ log' = Append(log, "await:pageData")
            /\ UNCHANGED result
    /\ UNCHANGED <<inputVars, staticGenerationStore, res, formState,
                   actionRequestResult, extraRenderResultMeta, capturedErrors,
                   stringifiedFlightPayloadPromise, streams,
                   serverComponentsRenderOpts, serverErrorComponentsRenderOpts,
                   bodyResultCalls, errorRenders, continuations, renderErr,
                   statusAtRender, body, renderResult, thrown>>

\* staticGenerationStore.tags?.join(',') after addImplicitTags.
FetchTagValues == {"_N_T_/layout,_N_T_/page"}

\* FINALIZE, lines 984-1004: the RenderResult is built, the cache tags are
\* attached; a static-generation pass goes on to materialise the HTML.
PageDataResolves ==
    /\ pc = "awaitPageData"
    /\ stringifiedFlightPayloadPromise.state = "resolved"
    /\ \E tags \in FetchTagValues :
          LET rr == [kind |-> "html", body |-> body,
                     metadata |->
                        [extraRenderResultMeta EXCEPT
                            !.pageData = stringifiedFlightPayloadPromise.value,
                            !.waitUntil = TRUE]]
              meta == [extraRenderResultMeta EXCEPT !.fetchTags = tags]
              rr2 == extendMetadata(rr, [EmptyMeta EXCEPT !.fetchTags = tags])
          IN  /\ extraRenderResultMeta' = meta
              /\ renderResult' = rr2
              /\ IF isStaticGeneration
                 THEN /\ pc' = "toUnchunkedString"
                      /\ log' = Append(log, "toUnchunkedString")
                      /\ UNCHANGED result
                 ELSE /\ pc' = "returned"
                      /\ log' = Append(log, "return")
                      /\ result' = rr2
    /\ UNCHANGED <<inputVars, staticGenerationStore, res, formState,
                   actionRequestResult, capturedErrors,
                   stringifiedFlightPayloadPromise, streams,
                   serverComponentsRenderOpts, serverErrorComponentsRenderOpts,
                   bodyResultCalls, errorRenders, continuations, renderErr,
                   statusAtRender, body, thrown>>

\* ctx.defaultRevalidate
defaultRevalidate == "false"

\* A variant that takes the default for every falsy revalidate.
RevalidateOf_FalsyDefault(store) ==
    IF store.revalidate \in {Undefined, Null, "0", "false"}
    THEN "false" ELSE store.revalidate

\* staticGenerationStore.revalidate ?? ctx.defaultRevalidate
RevalidateOf(store) ==
    IF store.revalidate = Undefined \/ store.revalidate = Null
    THEN defaultRevalidate ELSE store.revalidate

\* Lines 1012-1014.
ApplyForceStatic(store) ==
    IF store.forceStatic = "false"
    THEN [store EXCEPT !.revalidate = "0"] ELSE store

\* Lines 1018-1028: the metadata of the static-generation result.
StaticMeta(meta, store) ==
    [meta EXCEPT
        !.pageData = stringifiedFlightPayloadPromise.value,
        !.revalidate = RevalidateOf(store),
        !.staticBailoutInfo = (RevalidateOf(store) = "0")]

\* await renderResult.toUnchunkedString(true) resolves (lines 1004-1030).
\* The render has by then left its revalidate and forceStatic in the store.
UnchunkReturns ==
    /\ pc = "toUnchunkedString"
    /\ IF Len(capturedErrors) > 0
       THEN /\ thrown' = capturedErrors[1]
            /\ pc' = "thrown"
            /\ log' = Append(log, "throw:capturedErrors[0]")
            /\ UNCHANGED <<staticGenerationStore, extraRenderResultMeta, result>>
       ELSE \E revalidate \in RevalidateValues, forceStatic \in ForceStaticValues :
               LET left == [staticGenerationStore EXCEPT
                               !.revalidate = revalidate,
                               !.forceStatic = forceStatic]
                   store == ApplyForceStatic(left)
                   meta == StaticMeta(extraRenderResultMeta, store)
               IN  /\ staticGenerationStore' = store
                   /\ extraRenderResultMeta' = meta
                   /\ result' = [kind |-> "html",
                                 body |-> [body EXCEPT !.unchunked = TRUE],
                                 metadata |-> meta]
                   /\ pc' = "returned"
                   /\ log' = Append(log, "return")
                   /\ UNCHANGED thrown
    /\ UNCHANGED <<inputVars, res, formState, actionRequestResult,
                   capturedErrors, stringifiedFlightPayloadPromise, streams,
                   serverComponentsRenderOpts, serverErrorComponentsRenderOpts,
                   bodyResultCalls, errorRenders, continuations, renderErr,
                   statusAtRender, body, renderResult>>

UnchunkThrows ==
    /\ pc = "toUnchunkedString"
    /\ thrown' = PlainErr("", "boom2")
    /\ pc' = "thrown"
    /\ log' = Append(log, "toUnchunkedString:threw")
    /\ UNCHANGED <<inputVars, staticGenerationStore, res, formState,
                   actionRequestResult, extraRenderResultMeta, capturedErrors,
                   stringifiedFlightPayloadPromise, streams,
                   serverComponentsRenderOpts, serverErrorComponentsRenderOpts,
                   bodyResultCalls, errorRenders, continuations, renderErr,
                   statusAtRender, body, renderResult, result>>

(***************************************************************************)
(* The background tree-payload run (lines 603-608) settles: the string of  *)
(* the flight result, or null when generateFlight or toUnchunkedString     *)
(* rejected.                                                               *)
(***************************************************************************)
\* A variant whose promise is settled with the rejection's reason.
FlightPayloadString_Reason(run) ==
    IF run = "rejected" THEN "flight-error" ELSE "flight-payload"

\* generateFlight(ctx).then(...).catch(() => null): what the promise is
\* fulfilled with after the run was fulfilled or rejected.
FlightPayloadString(run) ==
    IF run = "rejected" THEN Null ELSE "flight-payload"

BackgroundFlightSettles ==
    /\ stringifiedFlightPayloadPromise.state = "pending"
    /\ \E run \in {"fulfilled", "rejected"} :
          stringifiedFlightPayloadPromise' =
              [state |-> "resolved", value |-> FlightPayloadString(run),
               run |-> run]
    /\ UNCHANGED <<inputVars, staticGenerationStore, res, pc, log, formState,
                   actionRequestResult, extraRenderResultMeta, capturedErrors,
                   streams, serverComponentsRenderOpts,
                   serverErrorComponentsRenderOpts, bodyResultCalls,
                   errorRenders, continuations, renderErr, statusAtRender,
                   body, renderResult, thrown, result>>

(***************************************************************************)
(* An error handler of the request (lines 464-488) captures an error while *)
(* a render is running.                                                    *)
(***************************************************************************)
RenderRunning ==
    \/ pc \in {"generateFlight", "render", "continue", "errorRender",
               "errorContinue", "toUnchunkedString"}
    \/ stringifiedFlightPayloadPromise.state = "pending"

CaptureError ==
    /\ RenderRunning
    /\ pc \notin {"returned", "thrown"}
    /\ Len(capturedErrors) < MaxCaptured
    /\ \E e \in CapturableErrors : capturedErrors' = Append(capturedErrors, e)
    /\ UNCHANGED <<inputVars, staticGenerationStore, res, pc, log, formState,
                   actionRequestResult, extraRenderResultMeta,
                   stringifiedFlightPayloadPromise, streams,
                   serverComponentsRenderOpts, serverErrorComponentsRenderOpts,
                   bodyResultCalls, errorRenders, continuations, renderErr,
                   statusAtRender, body, renderResult, thrown, result>>

Next ==
    \/ EnterFlightOnly
    \/ EnterHtmlPath
    \/ GenerateFlightReturns
    \/ GenerateFlightThrows
    \/ HandleActionReturns
    \/ HandleActionThrows
    \/ RenderReturnsPostponed
    \/ RenderReturnsStream
    \/ ContinueReturns
    \/ ContinueThrows
    \/ RenderThrowsFatal
    \/ RenderThrowsRecoverable
    \/ ErrorRenderReturns
    \/ ErrorContinueReturns
    \/ ErrorRenderThrows
    \/ BodyResultResolves
    \/ PageDataResolves
    \/ UnchunkReturns
    \/ UnchunkThrows
    \/ BackgroundFlightSettles
    \/ CaptureError

Spec == Init /\ [][Next]_vars

(***************************************************************************)
(* Segment Addressing on its own: one segment is resolved against one      *)
(* parameter mapping and one provided router state, while the orchestrator *)
(* stands at its entry.                                                    *)
(***************************************************************************)
ParamInit ==
    /\ RequestInit
    /\ ~req.isFlight
    /\ renderOpts = [postponed |-> Undefined, basePath |-> <<>>,
                     supportsDynamicHTML |-> TRUE, dev |-> FALSE]
    /\ ~staticGenerationStore.isStaticGeneration
    /\ pagePath = "/dashboard"
    /\ loaderTree = CHOOSE tree \in LoaderTrees : Len(tree[2]) = 1
    /\ res.statusCode # NotFoundStatus
    /\ params \in ParamMappings
    /\ providedFlightRouterState \in RouterStates
    /\ segment \in Segments
    /\ dynamicParam = NoCall
    /\ replayed = NoCall
    /\ walked = <<>>
    /\ flightOptions = NoFlightOptions
    /\ flightCall = NoFlightCall
    /\ globalThis = NoModuleHooks
    /\ referenceManifestsSingleton = NoReferenceManifests
    /\ inFlight = <<>>

\* getDynamicParamFromSegment(segment) is called.
CallGetDynamicParamFromSegment ==
    /\ dynamicParam = NoCall
    /\ dynamicParam' =
           Call("getDynamicParamFromSegment",
                getDynamicParamFromSegment(params, providedFlightRouterState,
                                           segment))
    /\ UNCHANGED <<requestVars, params, providedFlightRouterState, segment,
                   replayed, flightVars, processVars, inFlight>>

\* findDynamicParamFromRouterState(providedFlightRouterState, segment) is
\* called.
CallFindDynamicParamFromRouterState ==
    /\ dynamicParam = NoCall
    /\ dynamicParam' =
           Call("findDynamicParamFromRouterState",
                Scanned(providedFlightRouterState, segment))
    /\ UNCHANGED <<requestVars, params, providedFlightRouterState, segment,
                   replayed, flightVars, processVars, inFlight>>

\* The router states a later request provides after the tree segment was
\* serialized into the router state.
ReplayedRouterStates(treeSegment) ==
    { Leaf(treeSegment),
      RouterState(StringSegment(<<>>),
                  << Slot("children", Leaf(treeSegment)) >>) }

\* A segment that was resolved from the parameters is resolved again by a
\* getDynamicParamFromSegment made with the parameter absent and with a
\* provided router state that holds the tree segment returned.
ReplayRouterState ==
    /\ dynamicParam.called = "getDynamicParamFromSegment"
    /\ ~dynamicParam.returned.isNull
    /\ ~dynamicParam.consulted
    /\ replayed = NoCall
    /\ \E absent \in {UndefinedValue, StringValue(EMPTY_PARAM)},
          state \in ReplayedRouterStates(dynamicParam.returned.treeSegment) :
          replayed' =
              Call("getDynamicParamFromSegment",
                   getDynamicParamFromSegment(
                       [key \in ParamNames |-> absent], state, segment))
    /\ UNCHANGED <<requestVars, params, providedFlightRouterState, segment,
                   dynamicParam, flightVars, processVars, inFlight>>

ParamNext ==
    \/ CallGetDynamicParamFromSegment
    \/ CallFindDynamicParamFromRouterState
    \/ ReplayRouterState

ParamSpec == ParamInit /\ [][ParamNext]_vars

(***************************************************************************)
(* generateFlight on its own: it is called once with one walk result and   *)
(* one set of options, while the orchestrator stands at its entry.         *)
(***************************************************************************)
FlightInit ==
    /\ RequestInit
    /\ req.isFlight
    /\ renderOpts = [postponed |-> Undefined, basePath |-> <<>>,
                     supportsDynamicHTML |-> TRUE, dev |-> FALSE]
    /\ ~staticGenerationStore.isStaticGeneration
    /\ pagePath = "/dashboard"
    /\ loaderTree = CHOOSE tree \in LoaderTrees : Len(tree[2]) = 1
    /\ res.statusCode # NotFoundStatus
    /\ params = [key \in ParamNames |-> UndefinedValue]
    /\ providedFlightRouterState = NoRouterState
    /\ segment = <<>>
    /\ dynamicParam = NoCall
    /\ replayed = NoCall
    /\ walked \in WalkResults
    /\ flightOptions \in FlightOptionValues
    /\ flightCall = NoFlightCall
    /\ globalThis = NoModuleHooks
    /\ referenceManifestsSingleton = NoReferenceManifests
    /\ inFlight = <<>>

CallGenerateFlight ==
    /\ ~flightCall.called
    /\ flightCall' = generateFlight(walked, flightOptions)
    /\ UNCHANGED <<requestVars, paramVars, walked, flightOptions,
                   processVars, inFlight>>

FlightSpec == FlightInit /\ [][CallGenerateFlight]_vars

(***************************************************************************)
(* Several requests in one process.  A request runs from one await to the  *)
(* next without interruption; between two of its steps any other request   *)
(* may run steps of its own.  Every request has its own metadata           *)
(* accumulator and captured-error list (lines 429, 464-465); the           *)
(* module-resolution hooks and the reference manifests are the process's   *)
(* (lines 421-427, 458-462).                                               *)
(***************************************************************************)
\* How many requests the process serves at a time.
MaxRequests == 2

RequestIds == 1..MaxRequests

\* A request that has not been entered yet, for a page and its module.
IdleRequest(page, hasNextApp) ==
    [pc |-> "entry",
     ComponentMod |-> [page |-> page, __next_app__ |-> hasNextApp],
     extraRenderResultMeta |-> EmptyMeta,
     capturedErrors |-> <<>>,
     resolvedWith |-> NoModuleHooks,
     manifestsUsed |-> NoReferenceManifests]

ConcurrentInit ==
    /\ RequestInit
    /\ ~req.isFlight
    /\ renderOpts = [postponed |-> Undefined, basePath |-> <<>>,
                     supportsDynamicHTML |-> TRUE, dev |-> FALSE]
    /\ ~staticGenerationStore.isStaticGeneration
    /\ pagePath = "/dashboard"
    /\ loaderTree = CHOOSE tree \in LoaderTrees : Len(tree[2]) = 1
    /\ res.statusCode # NotFoundStatus
    /\ params = [key \in ParamNames |-> UndefinedValue]
    /\ providedFlightRouterState = NoRouterState
    /\ segment = <<>>
    /\ dynamicParam = NoCall
    /\ replayed = NoCall
    /\ walked = <<>>
    /\ flightOptions = NoFlightOptions
    /\ flightCall = NoFlightCall
    /\ globalThis = NoModuleHooks
    /\ referenceManifestsSingleton = NoReferenceManifests
    /\ inFlight \in [RequestIds ->
                        { IdleRequest(page, hasNextApp) :
                            page \in PagePaths, hasNextApp \in BOOLEAN }]

\* Lines 395-950 for request r, up to its first await: the hooks and the
\* manifests are written, the accumulator and the error list are created.
RequestEnters(r) ==
    /\ inFlight[r].pc = "entry"
    /\ globalThis' = ExposeRequire(globalThis, inFlight[r].ComponentMod)
    /\ referenceManifestsSingleton' =
           ReferenceManifests(inFlight[r].ComponentMod.page)
    /\ inFlight' =
           [inFlight EXCEPT
               ![r].extraRenderResultMeta =
                   [EmptyMeta EXCEPT !.fetchMetrics = TRUE],
               ![r].capturedErrors = <<>>,
               ![r].pc = "handleAction"]
    /\ UNCHANGED <<requestVars, paramVars, flightVars>>

\* await handleAction(...) settles for request r and its document render
\* starts (lines 950-989, 729-735): the render resolves modules through the
\* hooks and the manifests the process holds at that time.
RequestRenders(r) ==
    /\ inFlight[r].pc = "handleAction"
    /\ inFlight' =
           [inFlight EXCEPT
               ![r].resolvedWith = globalThis,
               ![r].manifestsUsed = referenceManifestsSingleton,
               ![r].pc = "render"]
    /\ UNCHANGED <<requestVars, paramVars, flightVars, processVars>>

\* An error handler of request r (lines 464-488) captures an error while its
\* render is running.
RequestCapturesError(r) ==
    /\ inFlight[r].pc = "render"
    /\ Len(inFlight[r].capturedErrors) < MaxCaptured
    /\ \E e \in CapturableErrors :
          inFlight' = [inFlight EXCEPT ![r].capturedErrors = Append(@, e)]
    /\ UNCHANGED <<requestVars, paramVars, flightVars, processVars>>

\* bodyResult resolves for request r and FINALIZE attaches the cache tags
\* (lines 984-1001, 1033).
RequestReturns(r) ==
    /\ inFlight[r].pc = "render"
    /\ \E tags \in FetchTagValues :
          inFlight' =
              [inFlight EXCEPT
                  ![r].extraRenderResultMeta = [@ EXCEPT !.fetchTags = tags],
                  ![r].pc = "returned"]
    /\ UNCHANGED <<requestVars, paramVars, flightVars, processVars>>

ConcurrentNext ==
    \E r \in RequestIds :
        \/ RequestEnters(r)
        \/ RequestRenders(r)
        \/ RequestCapturesError(r)
        \/ RequestReturns(r)

ConcurrentSpec == ConcurrentInit /\ [][ConcurrentNext]_vars

(***************************************************************************)
(* Properties                                                              *)
(***************************************************************************)
\* How often an event is in the log, and where it first is (0: nowhere).
Occurrences(e) == Cardinality({i \in DOMAIN log : log[i] = e})

FirstIndex(e) ==
    IF \E i \in DOMAIN log : log[i] = e
    THEN CHOOSE i \in DOMAIN log :
            log[i] = e /\ \A j \in 1..(i - 1) : log[j] # e
    ELSE 0

Finished == pc \in {"returned", "thrown"}

\* The request carries the RSC header and is not a static-generation pass.
PureNavigation == req.isFlight /\ ~staticGenerationStore.isStaticGeneration

\* C1: a request that carries the RSC header and is not a static-generation
\* pass is answered by generateFlight(ctx) alone: handleAction is never
\* called, no bodyResult, error-shell render or continuation is started, no
\* background tree-payload run is started, res is left as it was, and what
\* is returned is generateFlight's result.
C1_FlightOnlyBypassesHtmlPath ==
    (PureNavigation /\ pc # "entry") =>
        /\ pc \in {"generateFlight", "returned", "thrown"}
        /\ log[1] = "generateFlight"
        /\ Occurrences("generateFlight") = 1
        /\ Occurrences("handleAction") = 0
        /\ Occurrences("bodyResult") = 0
        /\ Occurrences("backgroundFlight") = 0
        /\ bodyResultCalls = <<>>
        /\ errorRenders = <<>>
        /\ continuations = <<>>
        /\ streams = <<>>
        /\ stringifiedFlightPayloadPromise.state = "unset"
        /\ res = entryRes
        /\ (pc = "returned" =>
              /\ result.kind = "flight"
              /\ result.body.from = "generateFlight")

C1_Witness ==
    /\ PureNavigation
    /\ pc = "returned"
    /\ result.kind = "flight"

\* C2: a request not answered in FLIGHT_ONLY mode is offered to handleAction
\* exactly once, and handleAction has returned before bodyResult is invoked;
\* no render is started on the HTML path without that.
C2_BridgeConsultedOnceBeforeRender ==
    (~PureNavigation /\ pc # "entry") =>
        /\ Occurrences("handleAction") = 1
        /\ Occurrences("handleAction:returned")
             + Occurrences("handleAction:threw") <= 1
        /\ (pc # "handleAction" =>
              Occurrences("handleAction:returned")
                + Occurrences("handleAction:threw") = 1)
        /\ Len(bodyResultCalls) = Occurrences("bodyResult")
        /\ (bodyResultCalls # <<>> =>
              /\ FirstIndex("handleAction") < FirstIndex("handleAction:returned")
              /\ FirstIndex("handleAction:returned") < FirstIndex("bodyResult")
              /\ FirstIndex("bodyResult") < FirstIndex("renderer.render"))
        /\ (Occurrences("renderer.render") > 0 => bodyResultCalls # <<>>)
        /\ ((errorRenders # <<>> \/ continuations # <<>> \/ body # NoBody)
              => bodyResultCalls # <<>>)

C2_Witness ==
    /\ ~PureNavigation
    /\ pc = "returned"
    /\ result.kind = "html"
    /\ Occurrences("handleAction") = 1
    /\ bodyResultCalls # <<>>

\* C3: when handleAction returns 'not-found', the one document render of the
\* request is run on the tree ['', {}, loaderTree[2]] with asNotFound true,
\* for every pagePath and loader tree, and so is the error-shell render if
\* it comes to that; the requested tree is not rendered.
C3_BridgeNotFoundRendersNotFoundTree ==
    actionRequestResult.type = "not-found" =>
        /\ Len(bodyResultCalls) = 1
        /\ bodyResultCalls[1].asNotFound = TRUE
        /\ bodyResultCalls[1].tree = << "", <<>>, loaderTree[3] >>
        /\ bodyResultCalls[1].tree # loaderTree
        /\ \A i \in DOMAIN errorRenders :
              errorRenders[i].tree = << "", <<>>, loaderTree[3] >>

C3_Witness ==
    /\ actionRequestResult.type = "not-found"
    /\ pagePath # "/404"
    /\ pc = "returned"
    /\ result.body.from = "primary"

\* C4: when handleAction returns 'done' with a result, the request returns
\* that result at once, with the accumulated metadata merged into it, and
\* neither bodyResult nor error recovery is entered.
C4_BridgeResultShortCircuits ==
    (actionRequestResult.type = "done"
        /\ actionRequestResult.result # Undefined) =>
        /\ pc = "returned"
        /\ log[Len(log)] = "handleAction:returned"
        /\ result.kind = "action"
        /\ result.body = BridgeResult.body
        /\ \A f \in DOMAIN EmptyMeta :
              result.metadata[f] =
                  IF extraRenderResultMeta[f] # EmptyMeta[f]
                  THEN extraRenderResultMeta[f]
                  ELSE BridgeResult.metadata[f]
        /\ result.metadata.fetchMetrics = TRUE
        /\ bodyResultCalls = <<>>
        /\ errorRenders = <<>>
        /\ continuations = <<>>
        /\ Occurrences("bodyResult") = 0
        /\ Occurrences("cloneTransformStream") = 0

C4_Witness ==
    /\ actionRequestResult.type = "done"
    /\ actionRequestResult.result # Undefined
    /\ actionRequestResult.formState # Undefined
    /\ pc = "returned"

\* The form state the bridge's outcome carries for the document render.
BridgeFormState ==
    IF actionRequestResult.type = "done"
       /\ actionRequestResult.result = Undefined
       /\ actionRequestResult.formState # Undefined
    THEN actionRequestResult.formState
    ELSE Null

\* C5: the document render gets the form state of a 'done' outcome that has
\* a form state and no result, and null when handleAction returned nothing
\* or 'not-found'; the error-recovery render gets the same form state.
C5_FormStateCarriedForward ==
    /\ \A i \in DOMAIN bodyResultCalls :
          bodyResultCalls[i].formState = BridgeFormState
    /\ \A i \in DOMAIN errorRenders :
          errorRenders[i].formState = BridgeFormState
    /\ (errorRenders # <<>> =>
          serverErrorComponentsRenderOpts.formState = BridgeFormState)
    /\ (actionRequestResult.type \in {Undefined, "not-found"} =>
          BridgeFormState = Null)

C5_Witness ==
    /\ actionRequestResult.type = "done"
    /\ actionRequestResult.formState = "fs2"
    /\ Len(bodyResultCalls) = 1
    /\ bodyResultCalls[1].formState = "fs2"
    /\ Len(errorRenders) = 1
    /\ errorRenders[1].formState = "fs2"
    /\ pc = "returned"

\* C6: if the primary document render throws a not-found signal, then when
\* the request returns res.statusCode is 404 and the body returned is the
\* one the error-shell render produced.
C6_NotFoundSignalGives404Shell ==
    (renderErr.digest = "NEXT_NOT_FOUND" /\ pc = "returned") =>
        /\ res.statusCode = 404
        /\ result.kind = "html"
        /\ result.body.from = "errorShell"
        /\ Len(errorRenders) = 1

C6_Witness ==
    /\ renderErr.digest = "NEXT_NOT_FOUND"
    /\ pc = "returned"
    /\ statusAtRender = 200
    /\ res.statusCode = 404

\* C7: if the primary document render throws a redirect signal with status
\* s and target t, then when the request returns res.statusCode is s, the
\* Location header is the base path followed by t, set-cookie holds the
\* signal's modified cookies when there are any, and the body returned is
\* the error shell's.
C7_RedirectSignalSetsStatusAndLocation ==
    (renderErr.digest = "NEXT_REDIRECT" /\ pc = "returned") =>
        /\ res.statusCode = renderErr.redirectStatus
        /\ res.Location =
              [set |-> TRUE,
               value |-> renderOpts.basePath \o renderErr.redirectUrl]
        /\ (renderErr.mutableCookies.modified # <<>> =>
              res.setCookie =
                  [set |-> TRUE, value |-> renderErr.mutableCookies.modified])
        /\ result.body.from = "errorShell"
        /\ Len(errorRenders) = 1
        /\ errorRenders[1].errorType = "redirect"

C7_Witness ==
    /\ renderErr.digest = "NEXT_REDIRECT"
    /\ renderErr.mutableCookies.modified # <<>>
    /\ renderOpts.basePath # <<>>
    /\ statusAtRender = 404
    /\ pc = "returned"

\* The primary render threw an error that is neither a not-found signal,
\* a redirect signal, a static-generation bail-out, a postponement nor a
\* client-only-rendering bail-out.
GenericRenderFailure ==
    /\ renderErr # NoError
    /\ renderErr.digest \notin
          {"NEXT_NOT_FOUND", "NEXT_REDIRECT", "NEXT_DYNAMIC_NO_SSR_CODE"}
    /\ renderErr.code # "NEXT_STATIC_GEN_BAILOUT"
    /\ renderErr.message # StaticExportMessage
    /\ ~renderErr.postpone

\* C8: if the primary document render throws a generic render failure,
\* res.statusCode is 500 when the request returns, whatever res.statusCode
\* was before the render began.
C8_GenericFailureGives500 ==
    (GenericRenderFailure /\ pc = "returned") => res.statusCode = 500

\* C9: if the primary document render throws a static-generation bail-out
\* (code NEXT_STATIC_GEN_BAILOUT or the static-export message), the request
\* throws that same error and error recovery is not entered: res is as it
\* was when the render began, no stream is cloned and no error-shell render
\* is started.
C9_BailoutIsRethrown ==
    (renderErr.code = "NEXT_STATIC_GEN_BAILOUT"
        \/ renderErr.message = StaticExportMessage) =>
        /\ pc = "thrown"
        /\ thrown = renderErr
        /\ res.statusCode = statusAtRender
        /\ res.Location = entryRes.Location
        /\ res.setCookie = entryRes.setCookie
        /\ Len(streams) = 1
        /\ Occurrences("cloneTransformStream") = 0
        /\ Occurrences("renderToInitialFizzStream") = 0
        /\ errorRenders = <<>>
        /\ serverErrorComponentsRenderOpts = NoOpts

C9_Witness ==
    /\ renderErr.message = StaticExportMessage
    /\ pc = "thrown"
    /\ thrown = renderErr

\* C10: every transform stream is given to at most one server-component
\* renderer and its readable end to at most one continuation step; the
\* error-recovery render writes to and reads from a stream that
\* cloneTransformStream made from the primary attempt's stream after that
\* attempt failed, never the primary attempt's stream itself.
C10_OneWriterOneReaderPerStream ==
    /\ \A i \in DOMAIN streams :
          /\ Len(streams[i].writers) <= 1
          /\ Len(streams[i].readers) <= 1
    /\ \A i \in DOMAIN errorRenders :
          LET s == errorRenders[i].stream
              orig == serverComponentsRenderOpts.inlinedDataTransformStream
          IN  /\ s # orig
              /\ s \in DOMAIN streams
              /\ streams[s].source = orig
              /\ streams[s].writers = <<"ErrorPage">>
              /\ streams[orig].writers = <<"ServerComponentsRenderer">>
              /\ streams[orig].readers = <<>>
              /\ 0 < FirstIndex("renderer.render:threw")
              /\ FirstIndex("renderer.render:threw")
                   < FirstIndex("cloneTransformStream")
    /\ \A i \in DOMAIN continuations :
          continuations[i].attempt = "recovery" =>
              /\ errorRenders # <<>>
              /\ continuations[i].inlinedDataStream = errorRenders[1].stream
              /\ continuations[i].inlinedDataStream
                   # serverComponentsRenderOpts.inlinedDataTransformStream

C10_Witness ==
    /\ Len(streams) = 2
    /\ streams[1].writers = <<"ServerComponentsRenderer">>
    /\ streams[2].writers = <<"ErrorPage">>
    /\ streams[2].readers = <<"continueFizzStream">>
    /\ pc = "returned"

\* The error-shell render failed with this error (NoError: it did not).
RecoveryFinalErr ==
    IF errorRenders = <<>> THEN NoError ELSE errorRenders[1].finalErr

\* Every request makes at most one primary render attempt and at most one
\* recovery attempt.
AtMostOneAttemptEach ==
    /\ Len(bodyResultCalls) <= 1
    /\ Occurrences("renderer.render") <= 1
    /\ Len(errorRenders) <= 1
    /\ Occurrences("cloneTransformStream") <= 1
    /\ Occurrences("renderToInitialFizzStream") <= 1
    /\ Cardinality({i \in DOMAIN continuations :
                       continuations[i].attempt = "recovery"}) <= 1
    /\ Len(streams) <= 2

\* C11 (as stated): if the error-shell render fails, the request throws
\* that very failure and returns no result, and there is at most one
\* primary render attempt and one recovery attempt per request.
C11_RecoveryFailurePropagatesUnchanged ==
    /\ AtMostOneAttemptEach
    /\ (RecoveryFinalErr # NoError =>
          /\ pc = "thrown"
          /\ result = NoResult
          /\ thrown = RecoveryFinalErr)

\* C11 (amended): if the error-shell render fails, the request throws and
\* returns no result; what it throws is that very failure, except that in
\* development a not-found failure is replaced by the error bailOnNotFound
\* throws; there is at most one primary render attempt and one recovery
\* attempt per request, and a failed recovery is the last step.
C11_RecoveryFailureIsFatal ==
    /\ AtMostOneAttemptEach
    /\ (RecoveryFinalErr # NoError =>
          /\ pc = "thrown"
          /\ result = NoResult
          /\ body = NoBody
          /\ log[Len(log)] \in {"recovery:threw", "bailOnNotFound"}
          /\ IF renderOpts.dev /\ RecoveryFinalErr.digest = "NEXT_NOT_FOUND"
             THEN thrown = BailOnNotFoundError
             ELSE thrown = RecoveryFinalErr)

C11_Witness ==
    /\ RecoveryFinalErr = PlainErr("", "boom2")
    /\ thrown = RecoveryFinalErr
    /\ Len(continuations) = 1
    /\ continuations[1].attempt = "recovery"
    /\ pc = "thrown"

\* C12: in static generation, when an error has been captured by the time
\* the HTML is materialised, the request throws the first captured error;
\* no static-generation request that rendered HTML returns a result while
\* the captured-error list is non-empty.
C12_CapturedErrorsFailStaticGeneration ==
    /\ (staticGenerationStore.isStaticGeneration
          /\ pc = "returned" /\ result.kind = "html")
            => capturedErrors = <<>>
    /\ (Occurrences("throw:capturedErrors[0]") > 0
            => /\ pc = "thrown"
               /\ capturedErrors # <<>>
               /\ thrown = capturedErrors[1])

\* C13: when the document-stream renderer yields a stream together with a
\* postponed state, bodyResult returns that stream as it is: no continuation
\* step is applied to it (nothing reads the side-channel stream, no head
\* insertion, no root-layout validation) and no recovery is entered; the
\* metadata of the result the request returns holds the serialized state.
C13_PostponedStreamReturnedAsIs ==
    Occurrences("renderer.render:postponed") > 0 =>
        /\ body = [from |-> "primary", continued |-> FALSE, stream |-> 0,
                   unchunked |-> FALSE]
        /\ continuations = <<>>
        /\ errorRenders = <<>>
        /\ Len(streams) = 1
        /\ streams[1].readers = <<>>
        /\ Occurrences("continueFizzStream") = 0
        /\ Occurrences("continuePostponedFizzStream") = 0
        /\ extraRenderResultMeta.postponed = "{postponed}"
        /\ (pc = "returned" =>
              /\ result.kind = "html"
              /\ result.body.from = "primary"
              /\ ~result.body.continued
              /\ result.metadata.postponed = "{postponed}")

C13_Witness ==
    /\ Occurrences("renderer.render:postponed") > 0
    /\ pc = "returned"
    /\ result.metadata.postponed = "{postponed}"
    /\ renderOpts.dev
    /\ ~staticGenerationStore.isStaticGeneration

\* C14: every result whose body the document render or the error-shell
\* render produced is returned after FINALIZE: it carries the cache tags
\* and, in static generation, is the materialised HTML, has passed the
\* captured-error check and carries the revalidation time; also when the
\* document render was entered from the bridge outcome 'not-found'.
C14_DocumentResultsAreFinalized ==
    (pc = "returned" /\ result.body.from \in {"primary", "errorShell"}) =>
        /\ result.metadata.fetchTags # Undefined
        /\ Occurrences("await:pageData") = 1
        /\ (staticGenerationStore.isStaticGeneration =>
              /\ result.body.unchunked
              /\ capturedErrors = <<>>
              /\ result.metadata.revalidate # Undefined)

\* C15: a static-generation request that returns from FINALIZE returns
\* revalidate 0 when the store's forceStatic is exactly false, and otherwise
\* the store's revalidate or, when that is unset, the default false; the
\* static-bailout diagnostic is attached exactly when the returned
\* revalidate is 0.
C15_RevalidateAndBailoutInfo ==
    (staticGenerationStore.isStaticGeneration /\ pc = "returned"
        /\ Occurrences("toUnchunkedString") > 0) =>
        LET revalidate == result.metadata.revalidate
        IN  /\ (staticGenerationStore.forceStatic = "false"
                  => revalidate = "0")
            /\ (staticGenerationStore.forceStatic # "false" =>
                  revalidate =
                      IF staticGenerationStore.revalidate = Undefined
                      THEN "false"
                      ELSE staticGenerationStore.revalidate)
            /\ result.metadata.staticBailoutInfo = (revalidate = "0")

C15_Witness ==
    /\ staticGenerationStore.isStaticGeneration
    /\ pc = "returned"
    /\ Occurrences("toUnchunkedString") > 0
    /\ staticGenerationStore.forceStatic = "false"
    /\ result.metadata.revalidate = "0"
    /\ result.metadata.staticBailoutInfo

\* getDynamicParamFromSegment was called with a dynamic segment.
ResolvedDynamicSegment ==
    /\ dynamicParam.called = "getDynamicParamFromSegment"
    /\ ~getSegmentParam(segment).isNull

\* The value params holds for the parameter the segment names.
SegmentParamValue == Lookup(params, getSegmentParam(segment).param)

\* Missing from the parameter mapping, or the empty marker.
AbsentValue(value) == value \in {UndefinedValue, StringValue(EMPTY_PARAM)}

\* C16: for a dynamic segment whose parameter has a string value v (one
\* that is present: not the empty marker), getDynamicParamFromSegment
\* returns a tree segment whose encoded value percent-decodes to v.
C16_EncodedValueDecodesToValue ==
    (ResolvedDynamicSegment /\ SegmentParamValue.type = "string"
        /\ ~AbsentValue(SegmentParamValue)) =>
        /\ ~dynamicParam.returned.isNull
        /\ dynamicParam.returned.treeSegment.isArray
        /\ decodeURIComponent(dynamicParam.returned.treeSegment.value)
             = SegmentParamValue.string

\* C17: a dynamic segment that resolved from the parameters to value v and
\* tree segment d resolves to the same value v (the same string, the same
\* array of strings) once the parameter is absent and the provided router
\* state holds d.
C17_ReplayRoundTrip ==
    replayed.called = "getDynamicParamFromSegment" =>
        /\ ~replayed.returned.isNull
        /\ replayed.returned.value = dynamicParam.returned.value

\* C18: an optional catch-all segment whose parameter is absent resolves to
\* value null with the tree segment [param, '', 'oc'], and the provided
\* router state is not consulted, whatever it holds.
C18_OptionalCatchallWithoutValue ==
    (dynamicParam.called = "getDynamicParamFromSegment"
        /\ segment = <<"[", "[", ".", ".", ".", "s", "]", "]">>
        /\ AbsentValue(params[<<"s">>])) =>
        /\ ~dynamicParam.consulted
        /\ dynamicParam.returned =
               [isNull |-> FALSE, param |-> <<"s">>, value |-> NullValue,
                treeSegment |-> TupleSegment(<<"s">>, <<>>, "oc"),
                type |-> "oc"]

C18_Witness ==
    /\ dynamicParam.called = "getDynamicParamFromSegment"
    /\ segment = <<"[", "[", ".", ".", ".", "s", "]", "]">>
    /\ params[<<"s">>] = StringValue(EMPTY_PARAM)
    /\ providedFlightRouterState # NoRouterState
    /\ providedFlightRouterState[1] = TupleSegment(<<"s">>, <<"p", "/", "q">>, "c")
    /\ dynamicParam.returned.value = NullValue

\* The tree segments of a router state, depth first: a node before its
\* children, the children in the order of their slots.
RECURSIVE PreOrder(_)
RECURSIVE PreOrderOfAll(_)
PreOrder(state) ==
    IF state = NoRouterState THEN <<>>
    ELSE <<state[1]>>
            \o PreOrderOfAll([i \in DOMAIN state[2] |-> state[2][i].state])

PreOrderOfAll(states) ==
    IF states = <<>> THEN <<>>
    ELSE PreOrder(Head(states)) \o PreOrderOfAll(Tail(states))

\* The positions, depth first, of the triples that carry the parameter the
\* requested segment names.
CompatibleNodes ==
    LET order == PreOrder(providedFlightRouterState)
    IN  {i \in DOMAIN order :
            /\ order[i].isArray
            /\ ~getSegmentParam(segment).isNull
            /\ order[i].param = getSegmentParam(segment).param}

\* C19: findDynamicParamFromRouterState returns the param, value and type
\* of the first node, depth first (a node before its children, children in
\* slot order), whose tree segment is override-compatible with the
\* requested segment, and null when the state is absent or has no such
\* node.
C19_FirstMatchDepthFirst ==
    dynamicParam.called = "findDynamicParamFromRouterState" =>
        IF CompatibleNodes = {}
        THEN dynamicParam.returned.isNull
        ELSE LET order == PreOrder(providedFlightRouterState)
                 first == CHOOSE i \in CompatibleNodes :
                              \A j \in CompatibleNodes : i <= j
             IN  /\ ~dynamicParam.returned.isNull
                 /\ dynamicParam.returned.param = order[first].param
                 /\ dynamicParam.returned.value
                      = StringValue(order[first].value)
                 /\ dynamicParam.returned.type = order[first].type
                 /\ dynamicParam.returned.treeSegment = order[first]

C19_Witness ==
    /\ dynamicParam.called = "findDynamicParamFromRouterState"
    /\ segment = <<"[", "s", "]">>
    /\ providedFlightRouterState # NoRouterState
    /\ Len(providedFlightRouterState[2]) = 2
    /\ Cardinality(CompatibleNodes) = 2
    /\ dynamicParam.returned.value = StringValue(<<"x">>)

\* C20: getDynamicParamFromSegment consults the provided router state only
\* when the segment's parameter is absent (missing or the empty marker) and
\* the segment is not an optional catch-all; when the parameter mapping
\* carries a value, what is returned does not depend on the provided router
\* state.
C20_RouterStateOnlyWithoutValue ==
    ResolvedDynamicSegment =>
        /\ (dynamicParam.consulted =>
              /\ AbsentValue(SegmentParamValue)
              /\ getSegmentParam(segment).type # "optional-catchall")
        /\ (~AbsentValue(SegmentParamValue) =>
              \A state \in RouterStates :
                  getDynamicParamFromSegment(params, state, segment).returned
                      = dynamicParam.returned)


\* C21: generateFlight returns the entries of the tree walk in the same order
\* and with the same count, each without its first element, the root segment
\* '', and otherwise unchanged; with skipFlight set the walk is not run and
\* the flight data is null.
C21_FlightDataIsWalkWithoutRoot ==
    flightCall.called =>
        IF flightOptions.given /\ flightOptions.skipFlight
        THEN /\ ~flightCall.walkRan
             /\ flightCall.flightData.isNull
        ELSE /\ flightCall.walkRan
             /\ ~flightCall.flightData.isNull
             /\ Len(flightCall.flightData.entries) = Len(walked)
             /\ \A i \in DOMAIN walked :
                    <<"">> \o flightCall.flightData.entries[i] = walked[i]

\* A walk of three entries, one of them with a second '' below the root, was
\* turned into flight data.
C21_Witness ==
    /\ flightCall.called
    /\ flightCall.walkRan
    /\ Len(walked) = 3
    /\ walked[1] # walked[2]
    /\ \E i \in DOMAIN walked : walked[i][3] = ""


\* The request is answered on the document path and has left the entry.
OnDocumentPath == ~IsFlightOnly /\ pc # "entry"

\* The background tree-payload run is started exactly when the request is a
\* static-generation pass or carries a resume token, and then before the
\* call of handleAction and before the document render.
BackgroundFlightStartedFirst ==
    OnDocumentPath =>
        /\ Occurrences("backgroundFlight") =
               (IF isStaticGeneration \/ renderOpts.postponed # Undefined
                THEN 1 ELSE 0)
        /\ Occurrences("backgroundFlight") = 1 =>
              /\ FirstIndex("backgroundFlight") = 1
              /\ FirstIndex("backgroundFlight") < FirstIndex("handleAction")
              /\ Occurrences("renderer.render") > 0 =>
                    FirstIndex("backgroundFlight")
                        < FirstIndex("renderer.render")

\* The tree-payload string is awaited only after bodyResult has resolved.
PageDataAwaitedAfterBody ==
    Occurrences("await:pageData") > 0 =>
        /\ body # NoBody
        /\ Occurrences("await:pageData") = 1
        /\ \/ FirstIndex("continue:returned") \in
                  1..(FirstIndex("await:pageData") - 1)
           \/ FirstIndex("renderer.render:postponed") \in
                  1..(FirstIndex("await:pageData") - 1)
           \/ FirstIndex("continueFizzStream:returned") \in
                  1..(FirstIndex("await:pageData") - 1)

\* The request returned a document although no background run was started.
ReturnedDocumentWithoutBackgroundFlight ==
    /\ OnDocumentPath
    /\ pc = "returned"
    /\ ~IsBridgeDoneWithResult(actionRequestResult)
    /\ Occurrences("backgroundFlight") = 0

\* C22: for a request not answered in FLIGHT_ONLY mode the background
\* tree-payload run is started if and only if the request is a
\* static-generation pass or carries a resume token, before action dispatch
\* and before the document render; it is awaited only after the document
\* render has produced its body; and when it is not started the pageData of
\* the result is null.
C22_BackgroundFlightPayload ==
    /\ BackgroundFlightStartedFirst
    /\ PageDataAwaitedAfterBody
    /\ ReturnedDocumentWithoutBackgroundFlight =>
           result.metadata.pageData = Null

\* The same with the results of the 'not-found' branch left out.
C22_ExceptNotFoundBranch ==
    /\ BackgroundFlightStartedFirst
    /\ PageDataAwaitedAfterBody
    /\ (ReturnedDocumentWithoutBackgroundFlight
        /\ ~IsBridgeNotFound(actionRequestResult)) =>
           result.metadata.pageData = Null


\* On the primary document render every continuation step of a request that
\* did not opt in to dynamic HTML runs with generateStaticHTML true.
PrimaryContinuationsAreStatic ==
    renderOpts.supportsDynamicHTML # TRUE =>
        \A i \in DOMAIN continuations :
            continuations[i].attempt = "primary" =>
                continuations[i].generateStaticHTML

\* C24: every continuation step of a request whose render options do not
\* have supportsDynamicHTML exactly true is run with generateStaticHTML true,
\* on the primary document render and on the error-recovery render.
C24_StaticHtmlUnlessDynamicOptIn ==
    renderOpts.supportsDynamicHTML # TRUE =>
        \A i \in DOMAIN continuations : continuations[i].generateStaticHTML


\* The primary document render threw the deopted-to-client-rendering signal.
RenderThrewNoSSR ==
    renderErr # NoError /\ renderErr.digest = "NEXT_DYNAMIC_NO_SSR_CODE"

\* C25: a deopted-to-client-rendering signal (digest NEXT_DYNAMIC_NO_SSR_CODE)
\* thrown by the primary document render is logged as a warning, once and
\* right after the render threw, and is not fatal: the request never rejects
\* with the signal, it goes on to the error-shell render, and it rejects at
\* all only if a later step fails on its own (the error-shell render, or the
\* static-generation pass's materialisation and captured-error check);
\* otherwise what it returns is the rendered error shell.
C25_NoSSRSignalIsWarnedNotFatal ==
    /\ Occurrences("warn") > 0 => RenderThrewNoSSR
    /\ RenderThrewNoSSR =>
          /\ Occurrences("warn") = 1
          /\ FirstIndex("warn") = FirstIndex("renderer.render:threw") + 1
          /\ Occurrences("renderToInitialFizzStream") = 1
          /\ FirstIndex("warn") < FirstIndex("renderToInitialFizzStream")
          /\ Len(errorRenders) = 1
          /\ pc = "thrown" =>
                /\ thrown # renderErr
                /\ thrown.digest # "NEXT_DYNAMIC_NO_SSR_CODE"
                /\ \/ Occurrences("recovery:threw") = 1
                   \/ Occurrences("toUnchunkedString") = 1
          /\ pc = "returned" =>
                /\ result.kind = "html"
                /\ result.body.from = "errorShell"
                /\ result.body.continued

\* The signal was thrown, the warning logged and the rendered error shell
\* returned.
C25_Witness ==
    /\ RenderThrewNoSSR
    /\ pc = "returned"
    /\ Occurrences("warn") = 1
    /\ result.body.from = "errorShell"


\* Event a is in the log, and before event b is.
Precedes(a, b) ==
    /\ FirstIndex(a) > 0
    /\ FirstIndex(b) > 0
    /\ FirstIndex(a) < FirstIndex(b)

\* C26: the readable end of a side-channel data stream has a reader only
\* after the document-stream render of the same attempt has been started and
\* has yielded its stream, and the reader is the continuation step called
\* after that; this holds for the stream of the primary attempt and for the
\* stream of the recovery attempt.
C26_SideChannelReadAfterRenderYielded ==
    \A i \in DOMAIN streams :
        streams[i].readers # <<>> =>
            /\ streams[i].writers # <<>>
            /\ i = serverComponentsRenderOpts.inlinedDataTransformStream =>
                  /\ Precedes("renderer.render", "renderer.render:returned")
                  /\ Precedes("renderer.render:returned", streams[i].readers[1])
                  /\ Occurrences("renderer.render:postponed") = 0
                  /\ \E c \in DOMAIN continuations :
                        /\ continuations[c].attempt = "primary"
                        /\ continuations[c].inlinedDataStream = i
            /\ i # serverComponentsRenderOpts.inlinedDataTransformStream =>
                  /\ i = serverErrorComponentsRenderOpts.inlinedDataTransformStream
                  /\ Precedes("renderToInitialFizzStream",
                              "renderToInitialFizzStream:returned")
                  /\ Precedes("renderToInitialFizzStream:returned",
                              streams[i].readers[1])
                  /\ \E c \in DOMAIN continuations :
                        /\ continuations[c].attempt = "recovery"
                        /\ continuations[c].inlinedDataStream = i

\* The error-shell render yielded its stream and the recovery stream was
\* handed to its continuation step, the primary stream never having been read.
C26_Witness ==
    /\ Len(streams) = 2
    /\ streams[1].readers = <<>>
    /\ streams[2].readers = <<"continueFizzStream">>
    /\ pc = "errorContinue"


\* ERROR_RECOVERY was entered: the catch block went past its re-throws.
RecoveryEntered == errorRenders # <<>>

\* C27: the orchestrator changes res.statusCode, the Location header and the
\* set-cookie header only inside error recovery.  As long as recovery has not
\* been entered (the primary document render did not throw, the postponed
\* and the resumed case included, or it threw what is thrown again), the two
\* headers are as they were when the orchestrator was entered and the status
\* code is the one the Action Dispatch Bridge left: the entry value if the
\* bridge was not consulted or did not change it.
C27_ResponseChangedOnlyInRecovery ==
    ~RecoveryEntered =>
        /\ res.Location = entryRes.Location
        /\ res.setCookie = entryRes.setCookie
        /\ Occurrences("handleAction:returned") = 0 =>
              res.statusCode = entryRes.statusCode
        /\ Occurrences("handleAction:returned") = 1 =>
              res.statusCode \in {entryRes.statusCode} \cup BridgeStatusCodes
        /\ bodyResultCalls # <<>> => res.statusCode = statusAtRender

\* A resumed request and a request whose render yielded a postponed state
\* returned with the 404 they were entered with.
C27_Witness ==
    /\ pc = "returned"
    /\ renderErr = NoError
    /\ entryRes.statusCode = NotFoundStatus
    /\ res = entryRes
    /\ Occurrences("renderer.render:postponed") = 1
    /\ renderOpts.postponed # Undefined


\* The background tree-payload run was started and was rejected.
BackgroundFlightRejected == stringifiedFlightPayloadPromise.run = "rejected"

\* The request has passed the await of the tree-payload string (line 992).
PastPageDataAwait == renderResult # NoResult

\* C28: a rejection of the background tree-payload run never fails the
\* request: the promise awaited is fulfilled with null, the request rejects
\* only where a step of its own failed, and the document render and FINALIZE
\* go on as after a fulfilled run, with pageData null in the result.  In
\* static generation the materialisation and the captured-error check start
\* only after the background run has settled, so whatever was captured up to
\* then, an error of the background run included, makes the check throw the
\* first captured error.
C28_BackgroundFlightFailureIsNotFatal ==
    /\ BackgroundFlightRejected =>
          /\ stringifiedFlightPayloadPromise.state = "resolved"
          /\ stringifiedFlightPayloadPromise.value = Null
          /\ pc = "thrown" =>
                \/ Occurrences("renderer.render:threw") = 1
                \/ Occurrences("continue:threw") = 1
                \/ Occurrences("handleAction:threw") = 1
                \/ Occurrences("toUnchunkedString:threw") = 1
                \/ Occurrences("throw:capturedErrors[0]") = 1
          /\ PastPageDataAwait =>
                /\ renderResult.metadata.pageData = Null
                /\ renderResult.metadata.fetchTags \in FetchTagValues
                /\ renderResult.body = body
          /\ (pc = "returned" /\ PastPageDataAwait) =>
                /\ result.metadata.pageData = Null
                /\ result.metadata.fetchTags \in FetchTagValues
    /\ Occurrences("toUnchunkedString") > 0 =>
          /\ isStaticGeneration
          /\ stringifiedFlightPayloadPromise.state = "resolved"
          /\ stringifiedFlightPayloadPromise.run \in {"fulfilled", "rejected"}
          /\ Precedes("await:pageData", "toUnchunkedString")
    /\ Occurrences("throw:capturedErrors[0]") > 0 =>
          /\ Occurrences("toUnchunkedString") = 1
          /\ capturedErrors # <<>>
          /\ thrown = capturedErrors[1]
    /\ (pc = "returned" /\ Occurrences("toUnchunkedString") = 1) =>
          capturedErrors = <<>>

\* A static-generation pass whose background run was rejected returned its
\* materialised document with a null tree-payload string.
C28_Witness ==
    /\ isStaticGeneration
    /\ BackgroundFlightRejected
    /\ pc = "returned"
    /\ result.body.unchunked
    /\ result.metadata.pageData = Null
    /\ result.metadata.fetchTags \in FetchTagValues


\* Request r has been entered and has not returned.
IsInFlight(r) == inFlight[r].pc \in {"handleAction", "render"}

\* What the orchestrator wrote on behalf of request r is still what the
\* process holds.
OwnsProcessState(r) ==
    /\ inFlight[r].ComponentMod.__next_app__ =>
           globalThis = ModuleHooks(inFlight[r].ComponentMod.page)
    /\ referenceManifestsSingleton =
           ReferenceManifests(inFlight[r].ComponentMod.page)

\* The accumulator and the error list of a request change only in a step of
\* that request.
PerRequestStateIsOwn ==
    \A r \in DOMAIN inFlight :
        /\ inFlight[r].pc = "entry" =>
               /\ inFlight[r].extraRenderResultMeta = EmptyMeta
               /\ inFlight[r].capturedErrors = <<>>
        /\ inFlight[r].pc \in {"handleAction", "render"} =>
               inFlight[r].extraRenderResultMeta.fetchTags = Undefined
        /\ inFlight[r].pc = "handleAction" => inFlight[r].capturedErrors = <<>>

\* C23: with two requests processed concurrently, nothing the orchestrator
\* wrote on behalf of a request that is still in flight is overwritten on
\* behalf of the other, and a request's render reads only what was written
\* on its own behalf: the context, the metadata accumulator, the
\* captured-error list, the module-resolution hooks and the reference
\* manifests are those of the one request.
C23_NoStateSharedAcrossRequests ==
    /\ PerRequestStateIsOwn
    /\ \A r \in DOMAIN inFlight :
          /\ IsInFlight(r) => OwnsProcessState(r)
          /\ inFlight[r].pc \in {"render", "returned"} =>
                /\ inFlight[r].manifestsUsed =
                       ReferenceManifests(inFlight[r].ComponentMod.page)
                /\ inFlight[r].ComponentMod.__next_app__ =>
                       inFlight[r].resolvedWith =
                           ModuleHooks(inFlight[r].ComponentMod.page)

====
